---- MODULE Spec2Model ----
(***************************************************************************)
(* Model of the optitrack message codec (src/src/lib.rs).                  *)
(*                                                                         *)
(* A buffer (BytesMut) is a sequence of bytes 0..255 together with a       *)
(* cursor `pos`, the number of bytes already consumed.  Every decoder is   *)
(* an operator (buf, pos) -> outcome, where an outcome is                  *)
(*   [st |-> "ok",    val |-> record, pos |-> new cursor]                  *)
(*   [st |-> "err",   val |-> message, pos |-> cursor]   (Err(..) value)   *)
(*   [st |-> "panic", ...]                 (the thread panics: bytes::Buf  *)
(*                                          get_* on underflow,            *)
(*                                          unimplemented!())              *)
(* f32 / f64 values are kept as their little-endian bit patterns (4 / 8    *)
(* bytes): from_le_bytes and to_le_bytes are bit-exact.                    *)
(***************************************************************************)
EXTENDS Integers, Sequences, FiniteSets, TLC

VARIABLES pc, src, msg, item, dst, out

vars == <<pc, src, msg, item, dst, out>>

(***************************************************************************)
(* Outcomes                                                                *)
(***************************************************************************)
Ok(v, p) == [st |-> "ok", val |-> v, pos |-> p]

Err(m, p) == [st |-> "err", val |-> m, pos |-> p]

Panic(p) == [st |-> "panic", val |-> "panic", pos |-> p]

None == [st |-> "none", val |-> "none", pos |-> 0]

\* the `?` operator, and the unwinding of a panic: an outcome that is not Ok
\* ends the enclosing function with that outcome; otherwise the function goes
\* on with the value
Try(r, K(_)) == IF r.st # "ok" THEN r ELSE K(r)

\* Result::unwrap_or / unwrap_or_default: an Err is replaced by the fallback
\* value, and the cursor stays where the failed decode left it
UnwrapOr(r, d) == IF r.st = "err" THEN Ok(d, r.pos) ELSE r

(***************************************************************************)
(* bytes::Buf primitives                                                   *)
(***************************************************************************)
Remaining(buf, pos) == Len(buf) - pos

U16LEAt(buf, pos) == buf[pos + 1] + 256 * buf[pos + 2]

U16BEAt(buf, pos) == 256 * buf[pos + 1] + buf[pos + 2]

U32LEAt(buf, pos) ==
    buf[pos + 1] + 256 * buf[pos + 2] + 65536 * buf[pos + 3] + 16777216 * buf[pos + 4]

\* two's complement reading of the same four bytes
I32LEAt(buf, pos) ==
    buf[pos + 1] + 256 * buf[pos + 2] + 65536 * buf[pos + 3]
      + 16777216 * (IF buf[pos + 4] >= 128 THEN buf[pos + 4] - 256 ELSE buf[pos + 4])

I16LEAt(buf, pos) ==
    buf[pos + 1] + 256 * (IF buf[pos + 2] >= 128 THEN buf[pos + 2] - 256 ELSE buf[pos + 2])

F32At(buf, pos) == SubSeq(buf, pos + 1, pos + 4)

F64At(buf, pos) == SubSeq(buf, pos + 1, pos + 8)

get_u16_le(buf, pos) ==
    IF Remaining(buf, pos) < 2 THEN Panic(pos) ELSE Ok(U16LEAt(buf, pos), pos + 2)

get_u16(buf, pos) ==
    IF Remaining(buf, pos) < 2 THEN Panic(pos) ELSE Ok(U16BEAt(buf, pos), pos + 2)

get_u32_le(buf, pos) ==
    IF Remaining(buf, pos) < 4 THEN Panic(pos) ELSE Ok(U32LEAt(buf, pos), pos + 4)

get_i32_le(buf, pos) ==
    IF Remaining(buf, pos) < 4 THEN Panic(pos) ELSE Ok(I32LEAt(buf, pos), pos + 4)

get_f32_le(buf, pos) ==
    IF Remaining(buf, pos) < 4 THEN Panic(pos) ELSE Ok(F32At(buf, pos), pos + 4)

\* Vec3 { x: get_f32_le(), y: get_f32_le(), z: get_f32_le() }
ReadVec3(buf, pos) ==
    IF Remaining(buf, pos) < 12 THEN Panic(pos)
    ELSE Ok([x |-> F32At(buf, pos), y |-> F32At(buf, pos + 4), z |-> F32At(buf, pos + 8)],
            pos + 12)

\* Quat::from_xyzw(get_f32_le(), get_f32_le(), get_f32_le(), get_f32_le())
ReadQuat(buf, pos) ==
    IF Remaining(buf, pos) < 16 THEN Panic(pos)
    ELSE Ok([x |-> F32At(buf, pos), y |-> F32At(buf, pos + 4),
             z |-> F32At(buf, pos + 8), w |-> F32At(buf, pos + 12)], pos + 16)

(***************************************************************************)
(* to_le_bytes                                                             *)
(***************************************************************************)
LE16(n) == <<n % 256, (n \div 256) % 256>>

LE32(n) == <<n % 256, (n \div 256) % 256, (n \div 65536) % 256, (n \div 16777216) % 256>>

BE32(n) == <<(n \div 16777216) % 256, (n \div 65536) % 256, (n \div 256) % 256, n % 256>>

RECURSIVE Concat(_)
Concat(ss) == IF ss = <<>> THEN <<>> ELSE Head(ss) \o Concat(Tail(ss))

(***************************************************************************)
(* f32 arithmetic of Quat::normalize on the values the model uses.         *)
(* FVal gives a float's value in halves; FBits is its inverse.             *)
(***************************************************************************)
F0 == <<0, 0, 0, 0>>

FHalf == <<0, 0, 0, 63>>

F1 == <<0, 0, 128, 63>>

F2 == <<0, 0, 0, 64>>

FNegHalf == <<0, 0, 0, 191>>

FNeg1 == <<0, 0, 128, 191>>

FNeg2 == <<0, 0, 0, 192>>

FNaN == <<0, 0, 192, 127>>

FloatTable == {F0, FHalf, F1, F2, FNegHalf, FNeg1, FNeg2}

HalvesTable == {0, 1, 2, 4, -1, -2, -4}

FVal(f) ==
    CASE f = F0 -> 0
      [] f = FHalf -> 1
      [] f = F1 -> 2
      [] f = F2 -> 4
      [] f = FNegHalf -> -1
      [] f = FNeg1 -> -2
      [] f = FNeg2 -> -4

FBits(h) ==
    CASE h = 0 -> F0
      [] h = 1 -> FHalf
      [] h = 2 -> F1
      [] h = 4 -> F2
      [] h = -1 -> FNegHalf
      [] h = -2 -> FNeg1
      [] h = -4 -> FNeg2

\* x*x + y*y + z*z + w*w, in quarters
QuatDot(q) ==
    FVal(q.x) * FVal(q.x) + FVal(q.y) * FVal(q.y)
      + FVal(q.z) * FVal(q.z) + FVal(q.w) * FVal(q.w)

\* the integer square root of a perfect square
ISqrt(n) == CHOOSE s \in 0..n : s * s = n

QuatNaN == [x |-> FNaN, y |-> FNaN, z |-> FNaN, w |-> FNaN]

\* the quaternions whose normalization is computed exactly here: table
\* components, a length that is a table value, quotients in the table
QuatExact(q) ==
    /\ {q.x, q.y, q.z, q.w} \subseteq FloatTable
    /\ \/ QuatDot(q) = 0
       \/ /\ \E s \in 1..QuatDot(q) : s * s = QuatDot(q)
          /\ \A c \in {q.x, q.y, q.z, q.w} :
                /\ (2 * FVal(c)) % ISqrt(QuatDot(q)) = 0
                /\ (2 * FVal(c)) \div ISqrt(QuatDot(q)) \in HalvesTable

\* a float this model does not compute: component i of the normalization of
\* q, named by its operands (never equal to a 4-byte bit pattern)
FOpaque(q, i) == <<i>> \o q.x \o q.y \o q.z \o q.w

\* glam Quat::normalize: self * (1 / self.length()); the zero quaternion
\* gives 0 * inf = NaN in every component.
QuatNormalize(q) ==
    IF ~QuatExact(q)
    THEN [x |-> FOpaque(q, 1), y |-> FOpaque(q, 2), z |-> FOpaque(q, 3), w |-> FOpaque(q, 4)]
    ELSE IF QuatDot(q) = 0 THEN QuatNaN
    ELSE LET s == ISqrt(QuatDot(q))
         IN  [x |-> FBits((2 * FVal(q.x)) \div s), y |-> FBits((2 * FVal(q.y)) \div s),
              z |-> FBits((2 * FVal(q.z)) \div s), w |-> FBits((2 * FVal(q.w)) \div s)]

\* f32 negation: the sign bit, the top bit of the last little-endian byte,
\* is flipped
FNegate(f) == [f EXCEPT ![4] = (f[4] + 128) % 256]

\* a transform that moves the axes without negating any
RigidBody_rub_to_frd_NoNegation(rb) ==
    [rb EXCEPT !.pos = [x |-> rb.pos.x, y |-> rb.pos.z, z |-> rb.pos.y]]

\* RigidBody::rub_to_frd: pos becomes (x, z, -y), ..self keeps the rest
RigidBody_rub_to_frd(rb) ==
    [rb EXCEPT !.pos = [x |-> rb.pos.x, y |-> rb.pos.z, z |-> FNegate(rb.pos.y)]]

(***************************************************************************)
(* Inline strings: src.reader().read_until(b'\0', &mut name_buf) followed  *)
(* by String::from_utf8(name_buf).  read_until appends every byte up to    *)
(* AND INCLUDING the delimiter; at end of input it returns what was read.  *)
(***************************************************************************)
RECURSIVE NulIndex(_, _)
\* index of the first 0 byte after the cursor, or Len(buf) when there is none
NulIndex(buf, pos) ==
    IF pos >= Len(buf) THEN Len(buf)
    ELSE IF buf[pos + 1] = 0 THEN pos + 1
    ELSE NulIndex(buf, pos + 1)

IsCont(b) == b >= 128 /\ b <= 191

RECURSIVE Utf8Valid(_)
\* core::str::from_utf8 validation
Utf8Valid(s) ==
    IF s = <<>> THEN TRUE
    ELSE LET b == s[1]
             n == Len(s)
         IN  IF b < 128 THEN Utf8Valid(Tail(s))
             ELSE IF b >= 194 /\ b <= 223
                  THEN n >= 2 /\ IsCont(s[2]) /\ Utf8Valid(SubSeq(s, 3, n))
             ELSE IF b >= 224 /\ b <= 239
                  THEN /\ n >= 3
                       /\ IsCont(s[2])
                       /\ IsCont(s[3])
                       /\ (b = 224 => s[2] >= 160)
                       /\ (b = 237 => s[2] <= 159)
                       /\ Utf8Valid(SubSeq(s, 4, n))
             ELSE IF b >= 240 /\ b <= 244
                  THEN /\ n >= 4
                       /\ IsCont(s[2])
                       /\ IsCont(s[3])
                       /\ IsCont(s[4])
                       /\ (b = 240 => s[2] >= 144)
                       /\ (b = 244 => s[2] <= 143)
                       /\ Utf8Valid(SubSeq(s, 5, n))
             ELSE FALSE

\* the name (terminator included when present) or a FromUtf8Error
ReadString(buf, pos) ==
    LET e == NulIndex(buf, pos)
        name == SubSeq(buf, pos + 1, e)
    IN  IF Utf8Valid(name) THEN Ok(name, e) ELSE Err("FromUtf8Error", e)

(***************************************************************************)
(* Entity decoders                                                         *)
(***************************************************************************)
\* impl Decoder for Vec3Codec
Vec3Codec_decode(buf, pos) == ReadVec3(buf, pos)

\* impl Decoder for QuatCodec
QuatCodec_decode(buf, pos) ==
    Try(ReadQuat(buf, pos), LAMBDA q : Ok(QuatNormalize(q.val), q.pos))

\* impl Decoder for RigidBodyCodec
RigidBodyCodec_decode(buf, pos) ==
    IF Remaining(buf, pos) < 32 THEN Err("Not enough bytes to decode RigidBody", pos)
    ELSE LET id == get_u32_le(buf, pos)
             p == ReadVec3(buf, pos + 4)
             q == ReadQuat(buf, pos + 16)
             e == get_f32_le(buf, pos + 32)
             f == get_u16_le(buf, pos + 36)
         IN  IF e.st # "ok" THEN e
             ELSE IF f.st # "ok" THEN f
             ELSE Ok([id |-> id.val, pos |-> p.val, rot |-> QuatNormalize(q.val),
                      is_tracking_valid |-> (f.val % 2) # 0,
                      mean_marker_err |-> e.val], f.pos)

\* impl Decoder for RigidBodyAssetCodec
RigidBodyAssetCodec_decode(buf, pos) ==
    IF Remaining(buf, pos) < 38 THEN Err("Not enough bytes to decode RigidBodyAsset", pos)
    ELSE Ok([id |-> U32LEAt(buf, pos), pos |-> ReadVec3(buf, pos + 4).val,
             rot |-> QuatNormalize(ReadQuat(buf, pos + 16).val),
             marker_error |-> F32At(buf, pos + 32),
             param |-> I16LEAt(buf, pos + 36)], pos + 38)

\* a LabeledMarker decoder that rejects a status outside 1, 2, 4
LabeledMarkerCodec_decode_StrictStatus(buf, pos) ==
    IF Remaining(buf, pos) < 26 THEN Err("Not enough bytes to decode LabeledMarker", pos)
    ELSE IF U16LEAt(buf, pos + 20) \notin {1, 2, 4} THEN Err("Unknown status", pos + 22)
    ELSE Ok([id |-> U32LEAt(buf, pos), pos |-> ReadVec3(buf, pos + 4).val,
             size |-> F32At(buf, pos + 16),
             status |-> CASE U16LEAt(buf, pos + 20) = 1 -> "Occluded"
                          [] U16LEAt(buf, pos + 20) = 2 -> "PointCloudSolved"
                          [] OTHER -> "ModelSolved",
             residual |-> F32At(buf, pos + 22)], pos + 26)

\* impl Decoder for LabeledMarkerCodec
LabeledMarkerCodec_decode(buf, pos) ==
    IF Remaining(buf, pos) < 26 THEN Err("Not enough bytes to decode LabeledMarker", pos)
    ELSE LET s == U16LEAt(buf, pos + 20)
         IN  Ok([id |-> U32LEAt(buf, pos), pos |-> ReadVec3(buf, pos + 4).val,
                 size |-> F32At(buf, pos + 16),
                 status |-> CASE s = 1 -> "Occluded"
                              [] s = 2 -> "PointCloudSolved"
                              [] s = 4 -> "ModelSolved"
                              [] OTHER -> "Unrecognized",
                 residual |-> F32At(buf, pos + 22)], pos + 26)

RECURSIVE ReadU32s(_, _, _)
\* (0..value_count).map(|_| src.get_u32_le()).collect()
ReadU32s(buf, pos, n) ==
    IF n <= 0 THEN Ok(<<>>, pos)
    ELSE Try(get_u32_le(buf, pos), LAMBDA v :
             Try(ReadU32s(buf, v.pos, n - 1), LAMBDA r : Ok(<<v.val>> \o r.val, r.pos)))

RECURSIVE ReadI32s(_, _, _)
\* (0..marker_count).map(|_| src.get_i32_le()).collect()
ReadI32s(buf, pos, n) ==
    IF n <= 0 THEN Ok(<<>>, pos)
    ELSE Try(get_i32_le(buf, pos), LAMBDA v :
             Try(ReadI32s(buf, v.pos, n - 1), LAMBDA r : Ok(<<v.val>> \o r.val, r.pos)))

RECURSIVE ReadVec3s(_, _, _)
\* (0..count).map(|_| Vec3 { x: .., y: .., z: .. }).collect()
ReadVec3s(buf, pos, n) ==
    IF n <= 0 THEN Ok(<<>>, pos)
    ELSE Try(ReadVec3(buf, pos), LAMBDA v :
             Try(ReadVec3s(buf, v.pos, n - 1), LAMBDA r : Ok(<<v.val>> \o r.val, r.pos)))

RECURSIVE ReadStrings(_, _, _)
\* for _ in 0..marker_count { read_until; marker_names.push(String::from_utf8(..)?) }
ReadStrings(buf, pos, n) ==
    IF n <= 0 THEN Ok(<<>>, pos)
    ELSE Try(ReadString(buf, pos), LAMBDA v :
             Try(ReadStrings(buf, v.pos, n - 1), LAMBDA r : Ok(<<v.val>> \o r.val, r.pos)))

\* impl Decoder for ForcePlateChannelCodec
ForcePlateChannelCodec_decode(buf, pos) ==
    IF Remaining(buf, pos) < 4
    THEN Err("Not enough bytes to decode ForcePlateChannel", pos)
    ELSE Try(ReadU32s(buf, pos + 4, U32LEAt(buf, pos)), LAMBDA vs :
             Ok([value_count |-> U32LEAt(buf, pos), values |-> vs.val], vs.pos))

\* impl Decoder for DeviceChannelCodec
DeviceChannelCodec_decode(buf, pos) ==
    IF Remaining(buf, pos) < 8
    THEN Err("Not enough bytes to decode DeviceChannel", pos)
    ELSE Try(ReadU32s(buf, pos + 4, U32LEAt(buf, pos)), LAMBDA vs :
             Ok([value_count |-> U32LEAt(buf, pos), values |-> vs.val], vs.pos))

\* impl Decoder for MarkerSetCodec
MarkerSetCodec_decode(buf, pos) ==
    Try(ReadString(buf, pos), LAMBDA name :
        IF Remaining(buf, name.pos) < 16
        THEN Err("Not enough bytest to decode MarkerSet", name.pos)
        ELSE Try(ReadVec3s(buf, name.pos + 4, U32LEAt(buf, name.pos)), LAMBDA ps :
                 Ok([name |-> name.val, marker_count |-> U32LEAt(buf, name.pos),
                     positions |-> ps.val], ps.pos)))

\* the codec.decode(src) call of the records nested in another record
ElementDecode(kind, buf, pos) ==
    CASE kind = "RigidBody" -> RigidBodyCodec_decode(buf, pos)
      [] kind = "RigidBodyAsset" -> RigidBodyAssetCodec_decode(buf, pos)
      [] kind = "ForcePlateChannel" -> ForcePlateChannelCodec_decode(buf, pos)
      [] kind = "DeviceChannel" -> DeviceChannelCodec_decode(buf, pos)

RECURSIVE CollectElements(_, _, _, _)
\* (0..count).map(|_| codec.decode(src)).collect::<Result<Vec<_>, _>>()?
\* inside a record: stops at the first Err; a panic inside an element
\* decode unwinds.
CollectElements(kind, buf, pos, n) ==
    IF n <= 0 THEN Ok(<<>>, pos)
    ELSE Try(ElementDecode(kind, buf, pos), LAMBDA v :
             Try(CollectElements(kind, buf, v.pos, n - 1), LAMBDA r : Ok(<<v.val>> \o r.val, r.pos)))

\* impl Decoder for SkeletonCodec
SkeletonCodec_decode(buf, pos) ==
    IF Remaining(buf, pos) < 8 THEN Err("Not enough bytes to decode Skeleton", pos)
    ELSE Try(CollectElements("RigidBody", buf, pos + 8, U32LEAt(buf, pos + 4)), LAMBDA xs :
             Ok([id |-> U32LEAt(buf, pos), rigid_body_count |-> U32LEAt(buf, pos + 4),
                 rigid_bodies |-> xs.val], xs.pos))

\* impl Decoder for AssetCodec
AssetCodec_decode(buf, pos) ==
    IF Remaining(buf, pos) < 8 THEN Err("Not enough bytes to decode Asset", pos)
    ELSE Try(CollectElements("RigidBodyAsset", buf, pos + 8, U32LEAt(buf, pos + 4)), LAMBDA xs :
             Ok([id |-> U32LEAt(buf, pos), rigid_body_count |-> U32LEAt(buf, pos + 4),
                 rigid_bodies |-> xs.val], xs.pos))

\* impl Decoder for ForcePlateCodec
ForcePlateCodec_decode(buf, pos) ==
    IF Remaining(buf, pos) < 8 THEN Err("Not enough bytes to decode ForcePlate", pos)
    ELSE Try(CollectElements("ForcePlateChannel", buf, pos + 8, U32LEAt(buf, pos + 4)), LAMBDA xs :
             Ok([id |-> U32LEAt(buf, pos), channel_count |-> U32LEAt(buf, pos + 4),
                 channels |-> xs.val], xs.pos))

\* impl Decoder for DeviceCodec
DeviceCodec_decode(buf, pos) ==
    IF Remaining(buf, pos) < 8 THEN Err("Not enough bytes to decode Device", pos)
    ELSE Try(CollectElements("DeviceChannel", buf, pos + 8, U32LEAt(buf, pos + 4)), LAMBDA xs :
             Ok([id |-> U32LEAt(buf, pos), channel_count |-> U32LEAt(buf, pos + 4),
                 channels |-> xs.val], xs.pos))

\* impl Decoder for MarkerAssetCodec
MarkerAssetCodec_decode(buf, pos) ==
    Try(get_u32_le(buf, pos), LAMBDA id :
    Try(get_u32_le(buf, id.pos), LAMBDA n :
    Try(CollectElements("RigidBody", buf, n.pos, n.val), LAMBDA rbs :
    Try(get_u32_le(buf, rbs.pos), LAMBDA m :
    Try(ReadVec3s(buf, m.pos, m.val), LAMBDA ps :
        Ok([id |-> id.val, rigid_body_count |-> n.val, rigid_bodies |-> rbs.val,
            marker_count |-> m.val, marker_positions |-> ps.val], ps.pos))))))

\* the codec.decode(src) call of each counted section
EntityDecode(kind, buf, pos) ==
    CASE kind = "MarkerSet" -> MarkerSetCodec_decode(buf, pos)
      [] kind = "Vec3" -> ReadVec3(buf, pos)
      [] kind = "RigidBody" -> RigidBodyCodec_decode(buf, pos)
      [] kind = "RigidBodyAsset" -> RigidBodyAssetCodec_decode(buf, pos)
      [] kind = "Skeleton" -> SkeletonCodec_decode(buf, pos)
      [] kind = "Asset" -> AssetCodec_decode(buf, pos)
      [] kind = "LabeledMarker" -> LabeledMarkerCodec_decode(buf, pos)
      [] kind = "ForcePlate" -> ForcePlateCodec_decode(buf, pos)
      [] kind = "ForcePlateChannel" -> ForcePlateChannelCodec_decode(buf, pos)
      [] kind = "Device" -> DeviceCodec_decode(buf, pos)
      [] kind = "DeviceChannel" -> DeviceChannelCodec_decode(buf, pos)

RECURSIVE Collect(_, _, _, _)
\* (0..count).map(|_| codec.decode(src)).collect::<Result<Vec<_>, _>>()?
\* : stops at the first Err; a panic inside an element decode unwinds.
Collect(kind, buf, pos, n) ==
    IF n <= 0 THEN Ok(<<>>, pos)
    ELSE Try(EntityDecode(kind, buf, pos), LAMBDA v :
             Try(Collect(kind, buf, v.pos, n - 1), LAMBDA r : Ok(<<v.val>> \o r.val, r.pos)))

(***************************************************************************)
(* Stamps / FrameParameters tail                                           *)
(***************************************************************************)
F64Zero == <<0, 0, 0, 0, 0, 0, 0, 0>>

\* impl Decoder for FrameParametersCodec (the tag is read with get_u16,
\* which is big-endian)
FrameParametersCodec_decode(buf, pos) ==
    IF Remaining(buf, pos) < 2
    THEN Err("Not enough bytes to decode FrameParameters", pos)
    ELSE LET t == U16BEAt(buf, pos)
         IN  Ok(CASE t = 1 -> "IsRecording"
                  [] t = 2 -> "TrackingModelsChanged"
                  [] OTHER -> "Unrecognized", pos + 2)

\* impl Decoder for StampsCodec
StampsCodec_decode(buf, pos) ==
    IF Remaining(buf, pos) < 42 THEN Err("Not enough bytes to decode Stamps", pos)
    ELSE Try(UnwrapOr(FrameParametersCodec_decode(buf, pos + 40), "Unrecognized"),
             LAMBDA fp :
             Ok([timestamp |-> F64At(buf, pos),
                 timestamp_mid |-> F64At(buf, pos + 8),
                 timestamp_recv |-> F64At(buf, pos + 16),
                 timestamp_tx |-> F64At(buf, pos + 24),
                 timestamp_precision |-> I32LEAt(buf, pos + 32),
                 timestamp_precision_fraction |-> I32LEAt(buf, pos + 36),
                 param |-> fp.val], fp.pos))

\* impl Default for Stamps
Stamps_default ==
    [timestamp |-> F64Zero, timestamp_mid |-> F64Zero, timestamp_recv |-> F64Zero,
     timestamp_tx |-> F64Zero, timestamp_precision |-> 0,
     timestamp_precision_fraction |-> 0, param |-> "Unrecognized"]

(***************************************************************************)
(* FrameData                                                               *)
(***************************************************************************)
\* the counted sections of FrameDataCodec::decode, in the order it reads them
SectionOrder ==
    <<"MarkerSet", "Vec3", "RigidBody", "Skeleton", "Asset", "LabeledMarker",
      "ForcePlate", "Device">>

\* a section whose two header words end up in each other's field
DecodeSection_FieldsSwapped(kind, buf, pos) ==
    Try(get_u32_le(buf, pos), LAMBDA c :
    Try(get_u32_le(buf, c.pos), LAMBDA b :
    Try(Collect(kind, buf, b.pos, c.val), LAMBDA xs :
        Ok([count |-> b.val, bytes |-> c.val, items |-> xs.val], xs.pos))))

\* a section that reads no entry when its byte length says there is none
DecodeSection_BoundedByBytes(kind, buf, pos) ==
    Try(get_u32_le(buf, pos), LAMBDA c :
    Try(get_u32_le(buf, c.pos), LAMBDA b :
    Try(Collect(kind, buf, b.pos, IF b.val = 0 THEN 0 ELSE c.val), LAMBDA xs :
        Ok([count |-> c.val, bytes |-> b.val, items |-> xs.val], xs.pos))))

\* one section: count (u32), byte length (u32), then `count` entries
DecodeSection(kind, buf, pos) ==
    Try(get_u32_le(buf, pos), LAMBDA c :
    Try(get_u32_le(buf, c.pos), LAMBDA b :
    Try(Collect(kind, buf, b.pos, c.val), LAMBDA xs :
        Ok([count |-> c.val, bytes |-> b.val, items |-> xs.val], xs.pos))))

RECURSIVE DecodeSections(_, _, _)
\* the sections SectionOrder[i..], read one after the other
DecodeSections(i, buf, pos) ==
    IF i > Len(SectionOrder) THEN Ok(<<>>, pos)
    ELSE Try(DecodeSection(SectionOrder[i], buf, pos), LAMBDA s :
             Try(DecodeSections(i + 1, buf, s.pos), LAMBDA r :
                 Ok(<<s.val>> \o r.val, r.pos)))

\* the tail with the fallbacks taken from the first enum variant
DecodeTail_FirstVariant(buf, pos) ==
    Try(UnwrapOr(StampsCodec_decode(buf, pos), Stamps_default), LAMBDA st :
    Try(UnwrapOr(FrameParametersCodec_decode(buf, st.pos), "IsRecording"), LAMBDA fp :
        Ok([stamps |-> st.val, frame_parameters |-> fp.val], fp.pos)))

\* a tail whose frame_parameters is the tag that closes the Stamps block
DecodeTail_TagShared(buf, pos) ==
    Try(UnwrapOr(StampsCodec_decode(buf, pos), Stamps_default), LAMBDA st :
        Ok([stamps |-> st.val, frame_parameters |-> st.val.param], st.pos))

\* Stamps then FrameParameters, each with its fallback
\* (unwrap_or_default / unwrap_or(FrameParameters::Unrecognized))
DecodeTail(buf, pos) ==
    Try(UnwrapOr(StampsCodec_decode(buf, pos), Stamps_default), LAMBDA st :
    Try(UnwrapOr(FrameParametersCodec_decode(buf, st.pos), "Unrecognized"), LAMBDA fp :
        Ok([stamps |-> st.val, frame_parameters |-> fp.val], fp.pos)))

\* the FrameData { .. } literal that ends FrameDataCodec::decode
FrameData(ps, fn, sec, tc, tcs, tail) ==
    [packet_size |-> ps, frame_number |-> fn,
     markerset_count |-> sec[1].count, markerset_bytes |-> sec[1].bytes,
     markersets |-> sec[1].items,
     unlabeled_marker_count |-> sec[2].count, unlabeled_marker_bytes |-> sec[2].bytes,
     unlabeled_marker_positions |-> sec[2].items,
     rigid_body_count |-> sec[3].count, rigid_body_bytes |-> sec[3].bytes,
     rigid_bodies |-> sec[3].items,
     skeleton_count |-> sec[4].count, skeleton_bytes |-> sec[4].bytes,
     skeletons |-> sec[4].items,
     asset_count |-> sec[5].count, asset_bytes |-> sec[5].bytes,
     assets |-> sec[5].items,
     labeled_marker_count |-> sec[6].count, labeled_marker_bytes |-> sec[6].bytes,
     labeled_marker_positions |-> sec[6].items,
     force_plate_count |-> sec[7].count, force_plate_bytes |-> sec[7].bytes,
     force_plates |-> sec[7].items,
     device_count |-> sec[8].count, device_bytes |-> sec[8].bytes,
     devices |-> sec[8].items,
     timecode |-> tc, timecode_sub |-> tcs,
     stamps |-> tail.stamps, frame_parameters |-> tail.frame_parameters]

\* impl Decoder for FrameDataCodec
FrameDataCodec_decode(buf, pos) ==
    Try(get_u16_le(buf, pos), LAMBDA ps :
    Try(get_u32_le(buf, ps.pos), LAMBDA fn :
    Try(DecodeSections(1, buf, fn.pos), LAMBDA sec :
    Try(get_u32_le(buf, sec.pos), LAMBDA tc :
    Try(get_u32_le(buf, tc.pos), LAMBDA tcs :
    Try(DecodeTail(buf, tcs.pos), LAMBDA tail :
        Ok(FrameData(ps.val, fn.val, sec.val, tc.val, tcs.val, tail.val), tail.pos)))))))

(***************************************************************************)
(* ModelDef and its descriptors                                            *)
(***************************************************************************)
\* impl Decoder for MarkerSetDescCodec
MarkerSetDescCodec_decode(buf, pos) ==
    Try(ReadString(buf, pos), LAMBDA name :
        IF Remaining(buf, name.pos) < 16
        THEN Err("Not enough bytest to decode MarkerSetDesc", name.pos)
        ELSE Try(ReadStrings(buf, name.pos + 4, I32LEAt(buf, name.pos)), LAMBDA ns :
                 Ok([name |-> name.val, marker_count |-> I32LEAt(buf, name.pos),
                     marker_names |-> ns.val], ns.pos)))

\* impl Decoder for RigidBodyDescCodec
RigidBodyDescCodec_decode(buf, pos) ==
    Try(ReadString(buf, pos), LAMBDA name :
        IF Remaining(buf, name.pos) < 24 THEN Panic(name.pos)
        ELSE Try(ReadVec3s(buf, name.pos + 24, I32LEAt(buf, name.pos + 20)), LAMBDA offs :
             Try(ReadI32s(buf, offs.pos, I32LEAt(buf, name.pos + 20)), LAMBDA labels :
             Try(ReadStrings(buf, labels.pos, I32LEAt(buf, name.pos + 20)), LAMBDA ns :
                 Ok([name |-> name.val, id |-> I32LEAt(buf, name.pos),
                     parent_id |-> I32LEAt(buf, name.pos + 4),
                     pos |-> ReadVec3(buf, name.pos + 8).val,
                     marker_count |-> I32LEAt(buf, name.pos + 20),
                     marker_offsets |-> offs.val,
                     marker_active_labels |-> labels.val,
                     marker_names |-> ns.val], ns.pos)))))

\* impl Decoder for CameraDescCodec (the rotation is returned as read)
CameraDescCodec_decode(buf, pos) ==
    Try(ReadString(buf, pos), LAMBDA name :
    Try(ReadVec3(buf, name.pos), LAMBDA p :
    Try(ReadQuat(buf, p.pos), LAMBDA q :
        Ok([name |-> name.val, pos |-> p.val, rot |-> q.val], q.pos))))

\* match data_type { 0 => MarkerSetDesc, 1 => RigidBodyDesc, 5 => CameraDesc,
\* _ => unimplemented!() }
DecodeDescriptor(t, buf, pos) ==
    CASE t = 0 -> MarkerSetDescCodec_decode(buf, pos)
      [] t = 1 -> RigidBodyDescCodec_decode(buf, pos)
      [] t = 5 -> CameraDescCodec_decode(buf, pos)
      [] OTHER -> Panic(pos)

\* the ModelDefData variant of each data_type
DescriptorVariant(t) ==
    CASE t = 0 -> "MarkerSetDesc"
      [] t = 1 -> "RigidBodyDesc"
      [] t = 5 -> "CameraDesc"

\* a dataset entry that keeps the data_type where the size belongs
DecodeDataset_TypeAsSize(buf, pos) ==
    Try(get_u32_le(buf, pos), LAMBDA t :
    Try(get_u32_le(buf, t.pos), LAMBDA sz :
    Try(DecodeDescriptor(t.val, buf, sz.pos), LAMBDA d :
        Ok([variant |-> DescriptorVariant(t.val), size |-> t.val, data |-> d.val],
           d.pos))))

\* one dataset entry of ModelDefCodec::decode: data_type, size, payload
DecodeDataset(buf, pos) ==
    Try(get_u32_le(buf, pos), LAMBDA t :
    Try(get_u32_le(buf, t.pos), LAMBDA sz :
    Try(DecodeDescriptor(t.val, buf, sz.pos), LAMBDA d :
        Ok([variant |-> DescriptorVariant(t.val), size |-> sz.val, data |-> d.val],
           d.pos))))

\* a loop over the entries that ends after the first one
DecodeDatasets_FirstOnly(buf, pos, n) ==
    IF n <= 0 THEN Ok(<<>>, pos)
    ELSE Try(DecodeDataset(buf, pos), LAMBDA d : Ok(<<d.val>>, d.pos))

RECURSIVE DecodeDatasets(_, _, _)
\* for _ in 0..dataset_count { .. dataset.push(data) }
DecodeDatasets(buf, pos, n) ==
    IF n <= 0 THEN Ok(<<>>, pos)
    ELSE Try(DecodeDataset(buf, pos), LAMBDA d :
             Try(DecodeDatasets(buf, d.pos, n - 1), LAMBDA r :
                 Ok(<<d.val>> \o r.val, r.pos)))

\* impl Decoder for ModelDefCodec
ModelDefCodec_decode(buf, pos) ==
    Try(get_u16_le(buf, pos), LAMBDA ps :
    Try(get_u32_le(buf, ps.pos), LAMBDA n :
    Try(DecodeDatasets(buf, n.pos, n.val), LAMBDA ds :
        Ok([packet_size |-> ps.val, dataset_count |-> n.val, dataset |-> ds.val],
           ds.pos))))

(***************************************************************************)
(* Message dispatcher                                                      *)
(***************************************************************************)
\* the match of Message::from_bytes on the message id, the tag consumed
DecodeMessage(id, buf) ==
    CASE id = "PingResponse" -> Ok([variant |-> "PingResponse"], 2)
      [] id = "FrameData" ->
            Try(FrameDataCodec_decode(buf, 2), LAMBDA r :
                Ok([variant |-> "FrameData", data |-> r.val], r.pos))
      [] id = "ModelDef" ->
            Try(ModelDefCodec_decode(buf, 2), LAMBDA r :
                Ok([variant |-> "ModelDef", data |-> r.val], r.pos))
      [] OTHER -> Panic(2)

MessageIdNames ==
    <<"Ping", "PingResponse", "Request", "Response", "RequestModelDef", "ModelDef",
      "RequestFrameData", "FrameData", "MessageString", "Disconnect", "KeepAlive",
      "DisconnectByTimeout", "EchoRequest", "EchoResponse", "Discovery">>

\* a mapping that takes the discriminant of Unrecognized for one of its values
MessageId_from_KnownOnly(value) ==
    IF value \in 0..14 THEN MessageIdNames[value + 1]
    ELSE IF value = 100 THEN "Unrecognized"
    ELSE "Ping"

\* impl From<u16> for MessageId
MessageId_from(value) ==
    IF value + 1 \in DOMAIN MessageIdNames THEN MessageIdNames[value + 1]
    ELSE "Unrecognized"

\* Message::from_bytes without its length check: the tag read itself underflows
Message_from_bytes_NoLenCheck(buf) ==
    Try(get_u16_le(buf, 0), LAMBDA t : DecodeMessage(MessageId_from(t.val), buf))

\* Message::from_bytes
Message_from_bytes(buf) ==
    IF Len(buf) < 2 THEN Err("Not enough bytes for message ID", 0)
    ELSE DecodeMessage(MessageId_from(U16LEAt(buf, 0)), buf)

(***************************************************************************)
(* Encoders.  Each gives the bytes its encode appends to dst; none of them *)
(* has a failing path (every one ends in Ok(())).                          *)
(***************************************************************************)
\* bincode::serialize(&Vec3): three little-endian f32
Vec3Bytes(v) == v.x \o v.y \o v.z

\* bincode::serialize(&Quat): four little-endian f32
QuatBytes(q) == q.x \o q.y \o q.z \o q.w

RECURSIVE Vec3sBytes(_)
Vec3sBytes(vs) == IF vs = <<>> THEN <<>> ELSE Vec3Bytes(Head(vs)) \o Vec3sBytes(Tail(vs))

RECURSIVE U32sBytes(_)
U32sBytes(ns) == IF ns = <<>> THEN <<>> ELSE LE32(Head(ns)) \o U32sBytes(Tail(ns))

\* impl Encoder<Vec3> for Vec3Codec
Vec3Codec_encode(v) == Vec3Bytes(v)

\* impl Encoder<Quat> for QuatCodec
QuatCodec_encode(q) == QuatBytes(q)

\* impl Encoder<FrameParameters> for FrameParametersCodec
FrameParametersCodec_encode(fp) ==
    CASE fp = "IsRecording" -> LE16(1)
      [] fp = "TrackingModelsChanged" -> LE16(2)
      [] OTHER -> LE16(0)

\* impl Encoder<Stamps> for StampsCodec
StampsCodec_encode(s) ==
    s.timestamp \o s.timestamp_mid \o s.timestamp_recv \o s.timestamp_tx
      \o LE32(s.timestamp_precision) \o LE32(s.timestamp_precision_fraction)
      \o FrameParametersCodec_encode(s.param)

\* impl Encoder<RigidBody> for RigidBodyCodec (is_tracking_valid is not written)
RigidBodyCodec_encode(rb) ==
    LE32(rb.id) \o Vec3Bytes(rb.pos) \o QuatBytes(rb.rot) \o rb.mean_marker_err

\* impl Encoder<RigidBodyAsset> for RigidBodyAssetCodec
RigidBodyAssetCodec_encode(rb) ==
    LE32(rb.id) \o Vec3Bytes(rb.pos) \o QuatBytes(rb.rot) \o rb.marker_error
      \o LE16(rb.param)

\* impl Encoder<LabeledMarker> for LabeledMarkerCodec (residual is not written)
LabeledMarkerCodec_encode(m) ==
    LE32(m.id) \o Vec3Bytes(m.pos) \o m.size
      \o (CASE m.status = "Occluded" -> LE16(1)
            [] m.status = "PointCloudSolved" -> LE16(2)
            [] m.status = "ModelSolved" -> LE16(4)
            [] m.status = "Unrecognized" -> LE16(0))

\* impl Encoder<ForcePlateChannel> for ForcePlateChannelCodec
ForcePlateChannelCodec_encode(ch) == LE32(ch.value_count) \o U32sBytes(ch.values)

\* impl Encoder<DeviceChannel> for DeviceChannelCodec
DeviceChannelCodec_encode(ch) == LE32(ch.value_count) \o U32sBytes(ch.values)

\* a count field written the way MarkerSet writes it
MarkerSetCount_LenWins(ms) == LE32(Len(ms.positions))

\* the count field of MarkerSetCodec::encode: the declared count when it
\* differs from the collection length, else the length
MarkerSetCount(ms) ==
    IF ms.marker_count # Len(ms.positions) THEN LE32(ms.marker_count)
    ELSE LE32(Len(ms.positions))

\* impl Encoder<MarkerSet> for MarkerSetCodec
MarkerSetCodec_encode(ms) ==
    ms.name \o <<0>> \o MarkerSetCount(ms) \o Vec3sBytes(ms.positions)

\* the rigid_body_count field of the Skeleton, Asset and MarkerAsset encoders
RigidBodyCount(x) ==
    IF x.rigid_body_count # Len(x.rigid_bodies) THEN LE32(x.rigid_body_count)
    ELSE LE32(Len(x.rigid_bodies))

\* the codec.encode(x, dst) call of the records nested in another record
ElementEncode(kind, v) ==
    CASE kind = "RigidBody" -> RigidBodyCodec_encode(v)
      [] kind = "RigidBodyAsset" -> RigidBodyAssetCodec_encode(v)
      [] kind = "ForcePlateChannel" -> ForcePlateChannelCodec_encode(v)
      [] kind = "DeviceChannel" -> DeviceChannelCodec_encode(v)

RECURSIVE EncodeElements(_, _)
\* for x in items.into_iter() { codec.encode(x, dst)?; } inside a record
EncodeElements(kind, xs) ==
    IF xs = <<>> THEN <<>>
    ELSE ElementEncode(kind, Head(xs)) \o EncodeElements(kind, Tail(xs))

\* impl Encoder<Skeleton> for SkeletonCodec (the id is not written)
SkeletonCodec_encode(sk) == RigidBodyCount(sk) \o EncodeElements("RigidBody", sk.rigid_bodies)

\* impl Encoder<Asset> for AssetCodec (the id is not written)
AssetCodec_encode(a) == RigidBodyCount(a) \o EncodeElements("RigidBodyAsset", a.rigid_bodies)

\* impl Encoder<MarkerAsset> for MarkerAssetCodec (id big-endian; marker_count
\* is not written)
MarkerAssetCodec_encode(ma) ==
    BE32(ma.id) \o RigidBodyCount(ma) \o EncodeElements("RigidBody", ma.rigid_bodies)
      \o Vec3sBytes(ma.marker_positions)

\* impl Encoder<ForcePlate> for ForcePlateCodec
ForcePlateCodec_encode(fp) ==
    LE32(fp.id) \o LE32(fp.channel_count) \o EncodeElements("ForcePlateChannel", fp.channels)

\* impl Encoder<Device> for DeviceCodec
DeviceCodec_encode(d) ==
    LE32(d.id) \o LE32(d.channel_count) \o EncodeElements("DeviceChannel", d.channels)

\* impl Encoder<MarkerSetDesc> for MarkerSetDescCodec (the marker names are
\* written without terminators)
MarkerSetDescCodec_encode(d) ==
    d.name \o <<0>>
      \o (IF d.marker_count # Len(d.marker_names) THEN LE32(d.marker_count)
          ELSE LE32(Len(d.marker_names)))
      \o Concat(d.marker_names)

RECURSIVE Thrice(_)
\* RigidBodyDescCodec::encode writes m.x three times per offset, each label
\* three times and each name three times
Thrice(bs) == IF bs = <<>> THEN <<>> ELSE Head(bs) \o Head(bs) \o Head(bs) \o Thrice(Tail(bs))

\* impl Encoder<RigidBodyDesc> for RigidBodyDescCodec
RigidBodyDescCodec_encode(d) ==
    d.name \o LE32(d.id) \o LE32(d.parent_id) \o Vec3Bytes(d.pos) \o LE32(d.marker_count)
      \o Thrice([i \in 1..Len(d.marker_offsets) |-> d.marker_offsets[i].x])
      \o Thrice([i \in 1..Len(d.marker_active_labels) |-> LE32(d.marker_active_labels[i])])
      \o Thrice(d.marker_names)

\* impl Encoder<CameraDesc> for CameraDescCodec
CameraDescCodec_encode(c) == c.name \o Vec3Bytes(c.pos) \o QuatBytes(c.rot)

\* the codec.encode(item, dst) call for each kind of record
EntityEncode(kind, v) ==
    CASE kind = "MarkerSet" -> MarkerSetCodec_encode(v)
      [] kind = "Vec3" -> Vec3Codec_encode(v)
      [] kind = "Quat" -> QuatCodec_encode(v)
      [] kind = "RigidBody" -> RigidBodyCodec_encode(v)
      [] kind = "RigidBodyAsset" -> RigidBodyAssetCodec_encode(v)
      [] kind = "Skeleton" -> SkeletonCodec_encode(v)
      [] kind = "Asset" -> AssetCodec_encode(v)
      [] kind = "MarkerAsset" -> MarkerAssetCodec_encode(v)
      [] kind = "LabeledMarker" -> LabeledMarkerCodec_encode(v)
      [] kind = "ForcePlate" -> ForcePlateCodec_encode(v)
      [] kind = "ForcePlateChannel" -> ForcePlateChannelCodec_encode(v)
      [] kind = "Device" -> DeviceCodec_encode(v)
      [] kind = "DeviceChannel" -> DeviceChannelCodec_encode(v)
      [] kind = "Stamps" -> StampsCodec_encode(v)
      [] kind = "FrameParameters" -> FrameParametersCodec_encode(v)
      [] kind = "MarkerSetDesc" -> MarkerSetDescCodec_encode(v)
      [] kind = "RigidBodyDesc" -> RigidBodyDescCodec_encode(v)
      [] kind = "CameraDesc" -> CameraDescCodec_encode(v)

RECURSIVE EncodeAll(_, _)
\* for x in items.into_iter() { codec.encode(x, dst)?; }
EncodeAll(kind, xs) ==
    IF xs = <<>> THEN <<>> ELSE EntityEncode(kind, Head(xs)) \o EncodeAll(kind, Tail(xs))

\* impl Encoder<FrameData> for FrameDataCodec: no *_bytes field and no asset
\* section is written
FrameDataCodec_encode(f) ==
    LE16(f.packet_size) \o LE32(f.frame_number)
      \o LE32(f.markerset_count) \o EncodeAll("MarkerSet", f.markersets)
      \o LE32(f.unlabeled_marker_count) \o Vec3sBytes(f.unlabeled_marker_positions)
      \o LE32(f.rigid_body_count) \o EncodeAll("RigidBody", f.rigid_bodies)
      \o LE32(f.skeleton_count) \o EncodeAll("Skeleton", f.skeletons)
      \o LE32(f.labeled_marker_count) \o EncodeAll("LabeledMarker", f.labeled_marker_positions)
      \o LE32(f.force_plate_count) \o EncodeAll("ForcePlate", f.force_plates)
      \o LE32(f.device_count) \o EncodeAll("Device", f.devices)
      \o LE32(f.timecode) \o LE32(f.timecode_sub)
      \o StampsCodec_encode(f.stamps)
      \o FrameParametersCodec_encode(f.frame_parameters)

\* the encode half of a round trip: the codec under test, FrameDataCodec
\* included
CodecEncode(kind, v) ==
    IF kind = "FrameData" THEN FrameDataCodec_encode(v) ELSE EntityEncode(kind, v)

\* the codec.decode(src) call for each kind of record
CodecDecode(kind, buf, pos) ==
    CASE kind = "Quat" -> QuatCodec_decode(buf, pos)
      [] kind = "MarkerAsset" -> MarkerAssetCodec_decode(buf, pos)
      [] kind = "Stamps" -> StampsCodec_decode(buf, pos)
      [] kind = "FrameParameters" -> FrameParametersCodec_decode(buf, pos)
      [] kind = "MarkerSetDesc" -> MarkerSetDescCodec_decode(buf, pos)
      [] kind = "RigidBodyDesc" -> RigidBodyDescCodec_decode(buf, pos)
      [] kind = "CameraDesc" -> CameraDescCodec_decode(buf, pos)
      [] kind = "FrameData" -> FrameDataCodec_decode(buf, pos)
      [] kind = "ModelDef" -> ModelDefCodec_decode(buf, pos)
      [] OTHER -> EntityDecode(kind, buf, pos)

(***************************************************************************)
(* Operations                                                              *)
(***************************************************************************)
\* a transport hands a complete buffer to Message::from_bytes
FromBytes ==
    /\ pc = "ready"
    /\ out' = Message_from_bytes(src)
    /\ pc' = "done"
    /\ UNCHANGED <<src, msg, item, dst>>

\* two buffers, each handed to Message::from_bytes on its own
FromBytesPair ==
    /\ pc = "ready"
    /\ out' = <<Message_from_bytes(src), Message_from_bytes(msg)>>
    /\ pc' = "done"
    /\ UNCHANGED <<src, msg, item, dst>>

\* codec.encode(item, &mut dst)
Encode ==
    /\ pc = "ready"
    /\ dst' = dst \o CodecEncode(item.kind, item.val)
    /\ pc' = "encoded"
    /\ UNCHANGED <<src, msg, item, out>>

\* the encoded bytes are handed to the decoder of the same codec
Decode ==
    /\ pc = "encoded"
    /\ src' = dst
    /\ out' = CodecDecode(item.kind, dst, 0)
    /\ pc' = "done"
    /\ UNCHANGED <<msg, item, dst>>

\* codec.decode(&mut src) on a received buffer
DecodeWire ==
    /\ pc = "ready"
    /\ out' = CodecDecode(item.kind, src, 0)
    /\ pc' = "done"
    /\ UNCHANGED <<src, msg, item, dst>>

\* ForcePlateCodec::decode and DeviceCodec::decode, each on its own copy of
\* the same received bytes
DecodeBoth ==
    /\ pc = "ready"
    /\ out' = <<ForcePlateCodec_decode(src, 0), DeviceCodec_decode(src, 0)>>
    /\ pc' = "done"
    /\ UNCHANGED <<src, msg, item, dst>>

\* rb.rub_to_frd()
RubToFrd ==
    /\ pc = "ready"
    /\ out' = Ok(RigidBody_rub_to_frd(item.val), 0)
    /\ pc' = "done"
    /\ UNCHANGED <<src, msg, item, dst>>

\* MessageId::from(value) on a u16
MessageIdFrom ==
    /\ pc = "ready"
    /\ out' = Ok(MessageId_from(item.val), 0)
    /\ pc' = "done"
    /\ UNCHANGED <<src, msg, item, dst>>

(***************************************************************************)
(* Spec: the dispatcher on every short buffer over ByteAlphabet            *)
(***************************************************************************)
MaxLen == 3

ByteAlphabet == {0, 1, 5, 7, 8, 100}

\* the sequences over S of length at most n
SeqsUpTo(S, n) == UNION {[1..k -> S] : k \in 0..n}

Init ==
    /\ pc = "ready"
    /\ src \in SeqsUpTo(ByteAlphabet, MaxLen)
    /\ msg = src
    /\ item = <<>>
    /\ dst = <<>>
    /\ out = None

Next == FromBytes

Spec == Init /\ [][Next]_vars

\* C1: every buffer of at least 2 bytes whose tag is not PingResponse (1),
\* ModelDef (5) or FrameData (7) yields a value (a structured "unsupported
\* message type" result), never a panic.
C1_UnsupportedTagIsValue ==
    (pc = "done" /\ Len(src) >= 2 /\ U16LEAt(src, 0) \notin {1, 5, 7})
        => out.st # "panic"

\* C2: a buffer of length 0 or 1 yields an error value, does not panic, and
\* no byte of it is consumed as a tag.
C2_ShortBufferIsError ==
    (pc = "done" /\ Len(src) < 2) => (out.st = "err" /\ out.pos = 0)

C2_Witness == pc = "done" /\ Len(src) = 1 /\ out.st = "err"

(***************************************************************************)
(* SpecFrame: the dispatcher on FrameData messages, complete, cut short at *)
(* every length, or followed by a tail of every length.                    *)
(*                                                                         *)
(* The messages are laid out as FrameDataCodec::decode reads them (the     *)
(* layout of the FrameData.bin fixture of tests::parse_frame).             *)
(***************************************************************************)
WireVec3 == F1 \o F0 \o F2

WireRigidBody == LE32(1) \o WireVec3 \o F0 \o F0 \o F0 \o F2 \o FHalf \o LE16(1)

WireRigidBodyAsset == LE32(2) \o WireVec3 \o FHalf \o FHalf \o FHalf \o FHalf \o F0 \o LE16(5)

WireEntity(kind) ==
    CASE kind = "MarkerSet" -> <<65, 66, 0>> \o LE32(1) \o WireVec3
      [] kind = "Vec3" -> WireVec3
      [] kind = "RigidBody" -> WireRigidBody
      [] kind = "Skeleton" -> LE32(3) \o LE32(1) \o WireRigidBody
      [] kind = "Asset" -> LE32(4) \o LE32(1) \o WireRigidBodyAsset
      [] kind = "LabeledMarker" -> LE32(9) \o WireVec3 \o FHalf \o LE16(2) \o F1
      [] kind = "ForcePlate" -> LE32(6) \o LE32(1) \o LE32(2) \o LE32(7) \o LE32(8)
      [] kind = "Device" -> LE32(5) \o LE32(1) \o LE32(1) \o LE32(11)

RECURSIVE Repeat(_, _)
Repeat(bytes, n) == IF n = 0 THEN <<>> ELSE bytes \o Repeat(bytes, n - 1)

\* count, byte length, entries
WireSection(kind, n) ==
    LE32(n) \o LE32(n * Len(WireEntity(kind))) \o Repeat(WireEntity(kind), n)

MaxEntities == 2

RECURSIVE Sum(_)
Sum(ns) == IF ns = <<>> THEN 0 ELSE Head(ns) + Sum(Tail(ns))

\* how many entries each of the eight sections holds
Shapes ==
    {c \in [1..Len(SectionOrder) -> 0..MaxEntities] : Sum(c) <= MaxEntities}

WireSections(c) == Concat([i \in 1..Len(SectionOrder) |-> WireSection(SectionOrder[i], c[i])])

\* tag, packet_size, frame_number, sections, timecode, timecode_sub
WireFrame(c, fn, tc) ==
    LET body == LE32(fn) \o WireSections(c) \o LE32(tc) \o LE32(tc + 1)
    IN  LE16(7) \o LE16(Len(body) + 4) \o body

FrameNumbers == {197792}

Timecodes == {5}

\* a full tail is 42 bytes of Stamps and 2 of FrameParameters
MaxTail == 44

TailHighs == {0, 1}

TailLows == {0, 1, 2}

TailFills == {3}

\* n tail bytes: two chosen leading bytes, then a filler
WireTail(a, b, f, n) == [i \in 1..n |-> IF i = 1 THEN a ELSE IF i = 2 THEN b ELSE f]

\* msg is the message up to and including timecode_sub; src is a proper
\* prefix of it, or the message followed by a tail
InitFrame ==
    /\ pc = "ready"
    /\ msg \in {WireFrame(c, fn, tc) : c \in Shapes, fn \in FrameNumbers, tc \in Timecodes}
    /\ \/ \E cut \in 0..(Len(msg) - 1) : src = SubSeq(msg, 1, cut)
       \/ \E n \in 0..MaxTail, a \in TailHighs, b \in TailLows, f \in TailFills :
              src = msg \o WireTail(a, b, f, n)
    /\ item = <<>>
    /\ dst = <<>>
    /\ out = None

NextFrame == FromBytes

SpecFrame == InitFrame /\ [][NextFrame]_vars

FrameTag == 7

IsFrame == Len(src) >= 2 /\ U16LEAt(src, 0) = FrameTag

\* C3: a FrameData buffer that ends before timecode_sub has been read
\* completely yields a typed error: no panic, no partial FrameData.
C3_TruncatedFrameIsTypedError ==
    (pc = "done" /\ IsFrame /\ Len(src) < Len(msg)) => out.st = "err"

\* the sections of a decoded FrameData in the order the layout states them:
\* markersets, unlabeled markers, rigid bodies, skeletons, assets, labeled
\* markers, force plates, devices
LayoutSections(f) ==
    << [kind |-> "MarkerSet", count |-> f.markerset_count,
        bytes |-> f.markerset_bytes, items |-> f.markersets],
       [kind |-> "Vec3", count |-> f.unlabeled_marker_count,
        bytes |-> f.unlabeled_marker_bytes, items |-> f.unlabeled_marker_positions],
       [kind |-> "RigidBody", count |-> f.rigid_body_count,
        bytes |-> f.rigid_body_bytes, items |-> f.rigid_bodies],
       [kind |-> "Skeleton", count |-> f.skeleton_count,
        bytes |-> f.skeleton_bytes, items |-> f.skeletons],
       [kind |-> "Asset", count |-> f.asset_count,
        bytes |-> f.asset_bytes, items |-> f.assets],
       [kind |-> "LabeledMarker", count |-> f.labeled_marker_count,
        bytes |-> f.labeled_marker_bytes, items |-> f.labeled_marker_positions],
       [kind |-> "ForcePlate", count |-> f.force_plate_count,
        bytes |-> f.force_plate_bytes, items |-> f.force_plates],
       [kind |-> "Device", count |-> f.device_count,
        bytes |-> f.device_bytes, items |-> f.devices] >>

RECURSIVE ChannelsLen(_)
ChannelsLen(chs) ==
    IF chs = <<>> THEN 0 ELSE 4 + 4 * Len(Head(chs).values) + ChannelsLen(Tail(chs))

\* the number of bytes an entry occupies on the wire
LayoutLen(kind, v) ==
    CASE kind = "MarkerSet" -> Len(v.name) + 4 + 12 * Len(v.positions)
      [] kind = "Vec3" -> 12
      [] kind = "RigidBody" -> 38
      [] kind = "Skeleton" -> 8 + 38 * Len(v.rigid_bodies)
      [] kind = "Asset" -> 8 + 38 * Len(v.rigid_bodies)
      [] kind = "LabeledMarker" -> 26
      [] kind = "ForcePlate" -> 8 + ChannelsLen(v.channels)
      [] kind = "Device" -> 8 + ChannelsLen(v.channels)

RECURSIVE ItemsLen(_, _)
ItemsLen(kind, vs) ==
    IF vs = <<>> THEN 0 ELSE LayoutLen(kind, Head(vs)) + ItemsLen(kind, Tail(vs))

RECURSIVE SectionStart(_, _)
\* where section i starts: after the tag, packet_size, frame_number and the
\* sections before it
SectionStart(f, i) ==
    IF i = 1 THEN 8
    ELSE SectionStart(f, i - 1) + 8
           + ItemsLen(LayoutSections(f)[i - 1].kind, LayoutSections(f)[i - 1].items)

DecodesTo(r, v) == r.st = "ok" /\ r.val = v

\* section s of the result is what the input holds from offset o: its count,
\* its byte length, and exactly count entries one after the other
SectionAtPosition(s, o) ==
    /\ s.count = U32LEAt(src, o)
    /\ s.bytes = U32LEAt(src, o + 4)
    /\ Len(s.items) = s.count
    /\ \A k \in 1..Len(s.items) :
          DecodesTo(EntityDecode(s.kind, src,
                                 o + 8 + ItemsLen(s.kind, SubSeq(s.items, 1, k - 1))),
                    s.items[k])

\* the decoded FrameData f against the input, t being where the sections end
FieldsAtPositions(f, t) ==
    /\ f.packet_size = U16LEAt(src, 2)
    /\ f.frame_number = U32LEAt(src, 4)
    /\ \A i \in 1..8 : SectionAtPosition(LayoutSections(f)[i], SectionStart(f, i))
    /\ t + 8 <= Len(src)
    /\ f.timecode = U32LEAt(src, t)
    /\ f.timecode_sub = U32LEAt(src, t + 4)
    /\ (Len(src) >= t + 8 + 42) =>
          /\ f.stamps.timestamp = F64At(src, t + 8)
          /\ f.stamps.timestamp_mid = F64At(src, t + 16)
          /\ f.stamps.timestamp_recv = F64At(src, t + 24)
          /\ f.stamps.timestamp_tx = F64At(src, t + 32)
          /\ f.stamps.timestamp_precision = I32LEAt(src, t + 40)
          /\ f.stamps.timestamp_precision_fraction = I32LEAt(src, t + 44)

\* C4: FrameDataCodec::decode reads packet_size, frame_number, the eight
\* sections in layout order (count, byte length, exactly count entries),
\* timecode, timecode_sub and the Stamps block left to right; each scalar of
\* the result is the little-endian value at its position of the input.
C4_FieldsAtPositions ==
    (pc = "done" /\ IsFrame /\ out.st = "ok") =>
        /\ out.val.variant = "FrameData"
        /\ FieldsAtPositions(out.val.data, SectionStart(out.val.data, 9))

\* a frame with a rigid body and a skeleton and a complete tail was decoded
C4_Witness ==
    /\ pc = "done"
    /\ IsFrame
    /\ out.st = "ok"
    /\ out.val.data.rigid_body_count = 1
    /\ out.val.data.skeleton_count = 1
    /\ out.val.data.frame_number = 197792
    /\ Len(src) = Len(msg) + 44

\* C5: a FrameData buffer that ends exactly after timecode_sub decodes, with
\* the default Stamps (all four timestamps zero, both precision fields zero,
\* param Unrecognized) and frame_parameters Unrecognized.
C5_NoTailGivesDefaults ==
    (pc = "done" /\ IsFrame /\ src = msg) =>
        /\ out.st = "ok"
        /\ out.val.data.stamps =
              [timestamp |-> F64Zero, timestamp_mid |-> F64Zero,
               timestamp_recv |-> F64Zero, timestamp_tx |-> F64Zero,
               timestamp_precision |-> 0, timestamp_precision_fraction |-> 0,
               param |-> "Unrecognized"]
        /\ out.val.data.frame_parameters = "Unrecognized"

C5_Witness ==
    /\ pc = "done"
    /\ IsFrame
    /\ src = msg
    /\ out.st = "ok"
    /\ out.val.data.labeled_marker_count = 1
    /\ out.val.data.timecode_sub = 6

\* C6: with 0 to 41 bytes left after timecode_sub the whole tail is the
\* default: all-zero Stamps with param Unrecognized, and frame_parameters
\* Unrecognized, whatever the leftover bytes are.
C6_ShortTailGivesDefaults ==
    (pc = "done" /\ IsFrame /\ Len(src) >= Len(msg) /\ Len(src) - Len(msg) < 42) =>
        /\ out.st = "ok"
        /\ out.val.data.stamps.timestamp = F64Zero
        /\ out.val.data.stamps.timestamp_mid = F64Zero
        /\ out.val.data.stamps.timestamp_recv = F64Zero
        /\ out.val.data.stamps.timestamp_tx = F64Zero
        /\ out.val.data.stamps.param = "Unrecognized"
        /\ out.val.data.frame_parameters = "Unrecognized"

(***************************************************************************)
(* SpecCodec: a record is encoded and the bytes are decoded again          *)
(***************************************************************************)
SignedUnits == {F0, FHalf, F1, FNegHalf, FNeg1}

\* the unit quaternions over SignedUnits: one component +-1, or all four +-1/2
UnitQuats == {q \in [x : SignedUnits, y : SignedUnits, z : SignedUnits, w : SignedUnits] :
                 QuatDot(q) = 4}

RigidBodyItems ==
    [id : {1, 258}, pos : {[x |-> F1, y |-> FNegHalf, z |-> F2]}, rot : UnitQuats,
     is_tracking_valid : BOOLEAN, mean_marker_err : {F0, FHalf}]

SampleVec3 == [x |-> FHalf, y |-> F0, z |-> F2]

SampleQuat == [x |-> FHalf, y |-> FHalf, z |-> FHalf, w |-> FHalf]

SampleRigidBody ==
    [id |-> 1, pos |-> SampleVec3, rot |-> SampleQuat, is_tracking_valid |-> TRUE,
     mean_marker_err |-> FHalf]

SampleRigidBodyAsset ==
    [id |-> 2, pos |-> SampleVec3, rot |-> SampleQuat, marker_error |-> F0, param |-> 5]

SampleEntity(kind) ==
    CASE kind = "MarkerSet" ->
            [name |-> <<65, 66>>, marker_count |-> 1, positions |-> <<SampleVec3>>]
      [] kind = "Vec3" -> SampleVec3
      [] kind = "RigidBody" -> SampleRigidBody
      [] kind = "Skeleton" ->
            [id |-> 3, rigid_body_count |-> 1, rigid_bodies |-> <<SampleRigidBody>>]
      [] kind = "Asset" ->
            [id |-> 4, rigid_body_count |-> 1, rigid_bodies |-> <<SampleRigidBodyAsset>>]
      [] kind = "LabeledMarker" ->
            [id |-> 9, pos |-> SampleVec3, size |-> FHalf, status |-> "PointCloudSolved",
             residual |-> F2]
      [] kind = "ForcePlate" ->
            [id |-> 6, channel_count |-> 1,
             channels |-> <<[value_count |-> 2, values |-> <<7, 8>>]>>]
      [] kind = "Device" ->
            [id |-> 5, channel_count |-> 1,
             channels |-> <<[value_count |-> 1, values |-> <<11>>]>>]

SampleStamps ==
    [timestamp |-> <<0, 0, 0, 0, 0, 0, 0, 64>>, timestamp_mid |-> F64Zero,
     timestamp_recv |-> F64Zero, timestamp_tx |-> <<0, 0, 0, 0, 0, 0, 0, 63>>,
     timestamp_precision |-> 3, timestamp_precision_fraction |-> 4,
     param |-> "Unrecognized"]

\* a FrameData whose declared counts equal its collection lengths
FrameItem(c, tc, fp) ==
    FrameData(100, 197792,
              [i \in 1..Len(SectionOrder) |->
                  [count |-> c[i], bytes |-> c[i] * Len(WireEntity(SectionOrder[i])),
                   items |-> [k \in 1..c[i] |-> SampleEntity(SectionOrder[i])]]],
              tc, tc + 1, [stamps |-> SampleStamps, frame_parameters |-> fp])

FrameItems ==
    {FrameItem(c, tc, fp) : c \in Shapes, tc \in {0, 5},
                            fp \in {"IsRecording", "Unrecognized"}}

MaxCount == 2

\* records whose declared count is chosen independently of the collection
CountedItems ==
    {[kind |-> "MarkerSet",
      val |-> [name |-> <<65>>, marker_count |-> n,
               positions |-> [k \in 1..m |-> SampleVec3]]] : n \in 0..MaxCount, m \in 0..MaxCount}
    \cup
    {[kind |-> "Skeleton",
      val |-> [id |-> 3, rigid_body_count |-> n,
               rigid_bodies |-> [k \in 1..m |-> SampleRigidBody]]] : n \in 0..MaxCount, m \in 0..MaxCount}
    \cup
    {[kind |-> "Asset",
      val |-> [id |-> 4, rigid_body_count |-> n,
               rigid_bodies |-> [k \in 1..m |-> SampleRigidBodyAsset]]] : n \in 0..MaxCount, m \in 0..MaxCount}
    \cup
    {[kind |-> "MarkerAsset",
      val |-> [id |-> 7, rigid_body_count |-> n,
               rigid_bodies |-> [k \in 1..m |-> SampleRigidBody],
               marker_count |-> 1, marker_positions |-> <<SampleVec3>>]] :
         n \in 0..MaxCount, m \in 0..MaxCount}
    \cup
    {[kind |-> "MarkerSetDesc",
      val |-> [name |-> <<65>>, marker_count |-> n,
               marker_names |-> [k \in 1..m |-> <<77, 48 + k>>]]] : n \in 0..MaxCount, m \in 0..MaxCount}

InitCodec ==
    /\ pc = "ready"
    /\ item \in {[kind |-> "RigidBody", val |-> rb] : rb \in RigidBodyItems}
                  \cup {[kind |-> "FrameData", val |-> f] : f \in FrameItems}
                  \cup CountedItems
    /\ src = <<>>
    /\ msg = <<>>
    /\ dst = <<>>
    /\ out = None

NextCodec == Encode \/ Decode

SpecCodec == InitCodec /\ [][NextCodec]_vars

\* C7: for every RigidBody with a unit rotation, decoding the encoded bytes
\* succeeds and returns the same id, pos, mean_marker_err and
\* is_tracking_valid, with a rotation of unit length.
C7_RigidBodyRoundTrip ==
    (pc = "done" /\ item.kind = "RigidBody" /\ QuatDot(item.val.rot) = 4) =>
        /\ out.st = "ok"
        /\ out.val.id = item.val.id
        /\ out.val.pos = item.val.pos
        /\ out.val.mean_marker_err = item.val.mean_marker_err
        /\ out.val.is_tracking_valid = item.val.is_tracking_valid
        /\ QuatExact(out.val.rot)
        /\ QuatDot(out.val.rot) = 4

\* C8: for every FrameData whose declared counts equal its collection
\* lengths, decoding the encoded bytes returns a record equal to the original.
C8_FrameDataRoundTrip ==
    (pc = "done" /\ item.kind = "FrameData") => (out.st = "ok" /\ out.val = item.val)

CountedKinds == {"MarkerSet", "Skeleton", "Asset", "MarkerAsset", "MarkerSetDesc"}

DeclaredCount(kind, v) ==
    IF kind \in {"MarkerSet", "MarkerSetDesc"} THEN v.marker_count ELSE v.rigid_body_count

Collection(kind, v) ==
    CASE kind = "MarkerSet" -> v.positions
      [] kind = "MarkerSetDesc" -> v.marker_names
      [] OTHER -> v.rigid_bodies

\* the bytes of the collection's elements, one after the other
ElementBytes(kind, v) ==
    CASE kind = "MarkerSet" -> Vec3sBytes(v.positions)
      [] kind = "MarkerSetDesc" -> Concat(v.marker_names)
      [] kind = "Skeleton" -> EncodeElements("RigidBody", v.rigid_bodies)
      [] kind = "Asset" -> EncodeElements("RigidBodyAsset", v.rigid_bodies)
      [] kind = "MarkerAsset" -> EncodeElements("RigidBody", v.rigid_bodies)

\* what each encoder writes before its count field
BeforeCount(kind, v) ==
    CASE kind \in {"MarkerSet", "MarkerSetDesc"} -> Len(v.name) + 1
      [] kind = "MarkerAsset" -> 4
      [] OTHER -> 0

\* dst holds the count n at offset o, followed by the element bytes e
CountThenElements(o, n, e) ==
    /\ Len(dst) >= o + 4 + Len(e)
    /\ SubSeq(dst, o + 1, o + 4) = LE32(n)
    /\ SubSeq(dst, o + 5, o + 4 + Len(e)) = e

C21_SkeletonAssetRoundTrip ==
    (pc = "done" /\ item.kind \in {"Skeleton", "Asset"}
       /\ item.val.rigid_body_count = Len(item.val.rigid_bodies)) =>
        /\ out.st = "ok"
        /\ out.val.id = item.val.id
        /\ out.val.rigid_body_count = item.val.rigid_body_count

(***************************************************************************)
(* SpecWire: an entity decoder on a received buffer                        *)
(***************************************************************************)
WireFloats == {F0, FHalf, F1, F2, FNeg1}

\* rotations as they may arrive: non-zero, not necessarily of unit length
WireQuats == {q \in [x : WireFloats, y : WireFloats, z : WireFloats, w : WireFloats] :
                 QuatExact(q) /\ QuatDot(q) # 0}

RotKinds == {"RigidBody", "RigidBodyAsset", "Quat", "CameraDesc"}

\* a well-formed buffer holding one entity of the kind, with rotation q
WireWithRot(kind, q) ==
    CASE kind = "RigidBody" -> LE32(1) \o WireVec3 \o QuatBytes(q) \o FHalf \o LE16(1)
      [] kind = "RigidBodyAsset" -> LE32(2) \o WireVec3 \o QuatBytes(q) \o F0 \o LE16(5)
      [] kind = "Quat" -> QuatBytes(q)
      [] kind = "CameraDesc" -> <<67, 0>> \o WireVec3 \o QuatBytes(q)

InitWire ==
    /\ pc = "ready"
    /\ item \in {[kind |-> k, val |-> q] : k \in RotKinds, q \in WireQuats}
    /\ src = WireWithRot(item.kind, item.val)
    /\ msg = src
    /\ dst = <<>>
    /\ out = None

NextWire == DecodeWire

SpecWire == InitWire /\ [][NextWire]_vars

DecodedRot == IF item.kind = "Quat" THEN out.val ELSE out.val.rot

\* C10: the rotation returned by the RigidBody, RigidBodyAsset, Quat and
\* CameraDesc decoders is the normalized form of the four floats on the wire.
C10_RotationNormalized ==
    (pc = "done" /\ item.kind \in RotKinds) =>
        (out.st = "ok" /\ DecodedRot = QuatNormalize(item.val))

(***************************************************************************)
(* SpecMessage: the dispatcher on ModelDef messages whose entries have     *)
(* every data_type of DataTypes, and on complete FrameData messages; each  *)
(* message is handed over whole or cut short.                              *)
(***************************************************************************)
\* name, marker_count, then marker_count names
WireMarkerSetDesc ==
    <<77, 83, 0>> \o LE32(2) \o <<77, 65, 82, 75, 49, 0>> \o <<77, 65, 82, 75, 50, 0>>

\* name, id, parent_id, pos, marker_count, offsets, labels, names
WireRigidBodyDesc ==
    <<82, 66, 0>> \o LE32(1) \o LE32(0) \o WireVec3 \o LE32(1)
      \o WireVec3 \o LE32(3) \o <<77, 0>>

\* name, pos, rot
WireCameraDesc == <<67, 0>> \o WireVec3 \o F0 \o F0 \o F0 \o F1

\* the payload of an entry of data_type t; a type without a decoder has
\* four bytes of content
WirePayload(t) ==
    CASE t = 0 -> WireMarkerSetDesc
      [] t = 1 -> WireRigidBodyDesc
      [] t = 5 -> WireCameraDesc
      [] OTHER -> <<9, 9, 9, 9>>

\* data_type, size, payload
WireDataset(t) == LE32(t) \o LE32(Len(WirePayload(t))) \o WirePayload(t)

WireDatasets(ts) == Concat([k \in 1..Len(ts) |-> WireDataset(ts[k])])

\* tag, packet_size, dataset_count, entries
WireModelDef(ts) ==
    LE16(5) \o LE16(Len(WireDatasets(ts)) + 8) \o LE32(Len(ts)) \o WireDatasets(ts)

\* MarkerSetDesc, RigidBodyDesc, SkeletonDesc, CameraDesc, a type of a
\* later protocol version
DataTypes == {0, 1, 2, 5, 6}

MaxDatasets == 2

InitMessage ==
    /\ pc = "ready"
    /\ msg \in {WireModelDef(ts) : ts \in SeqsUpTo(DataTypes, MaxDatasets)}
                 \cup {WireFrame(c, fn, tc) : c \in Shapes, fn \in FrameNumbers,
                                              tc \in Timecodes}
    /\ \E cut \in 0..Len(msg) : src = SubSeq(msg, 1, cut)
    /\ item = <<>>
    /\ dst = <<>>
    /\ out = None

NextMessage == FromBytes

SpecMessage == InitMessage /\ [][NextMessage]_vars

ModelDefTag == 5

IsModelDef == Len(src) >= 2 /\ U16LEAt(src, 0) = ModelDefTag

\* C11: a dataset entry whose data_type is not 0, 1 or 5 gives a
\* recoverable outcome (a value or an error, carrying the declared size);
\* ModelDefCodec::decode does not abort on it.  Stated for the first entry
\* of a complete message.
C11_UnsupportedDescriptorRecoverable ==
    (pc = "done" /\ IsModelDef /\ src = msg /\ Len(src) >= 16
       /\ U32LEAt(src, 4) >= 1 /\ U32LEAt(src, 8) \notin {0, 1, 5})
        => out.st # "panic"

RECURSIVE StringsLen(_)
StringsLen(ns) == IF ns = <<>> THEN 0 ELSE Len(Head(ns)) + StringsLen(Tail(ns))

\* the number of bytes a decoded descriptor occupied on the wire
DescLen(e) ==
    CASE e.variant = "MarkerSetDesc" ->
            Len(e.data.name) + 4 + StringsLen(e.data.marker_names)
      [] e.variant = "RigidBodyDesc" ->
            Len(e.data.name) + 24 + 16 * Len(e.data.marker_offsets)
              + StringsLen(e.data.marker_names)
      [] e.variant = "CameraDesc" -> Len(e.data.name) + 28

RECURSIVE EntryStart(_, _)
\* where entry k starts: after tag, packet_size, dataset_count and the
\* entries before it
EntryStart(ds, k) ==
    IF k = 1 THEN 8 ELSE EntryStart(ds, k - 1) + 8 + DescLen(ds[k - 1])

\* the data_type each decodable variant is selected by
VariantType(v) ==
    CASE v = "MarkerSetDesc" -> 0
      [] v = "RigidBodyDesc" -> 1
      [] v = "CameraDesc" -> 5

\* entry e is the one the input holds at offset o
EntryAtPosition(e, o) ==
    /\ e.variant \in {"MarkerSetDesc", "RigidBodyDesc", "CameraDesc"}
    /\ VariantType(e.variant) = U32LEAt(src, o)
    /\ e.size = U32LEAt(src, o + 4)

\* C12: ModelDefCodec::decode reads packet_size, dataset_count and then per
\* entry data_type, size and payload; data_type 0, 1, 5 give MarkerSetDesc,
\* RigidBodyDesc, CameraDesc, each with the size read for the entry, and a
\* decoded ModelDef holds no other variant.
C12_ModelDefEntries ==
    (pc = "done" /\ IsModelDef /\ out.st = "ok") =>
        /\ out.val.variant = "ModelDef"
        /\ out.val.data.packet_size = U16LEAt(src, 2)
        /\ out.val.data.dataset_count = U32LEAt(src, 4)
        /\ \A k \in 1..Len(out.val.data.dataset) :
              EntryAtPosition(out.val.data.dataset[k],
                              EntryStart(out.val.data.dataset, k))

\* a RigidBodyDesc followed by a CameraDesc was decoded
C12_Witness ==
    /\ pc = "done"
    /\ IsModelDef
    /\ out.st = "ok"
    /\ Len(out.val.data.dataset) = 2
    /\ out.val.data.dataset[1].variant = "RigidBodyDesc"
    /\ out.val.data.dataset[1].size = 45
    /\ out.val.data.dataset[2].variant = "CameraDesc"

\* every channel holds as many values as it declares
ChannelsMatch(chs) == \A i \in 1..Len(chs) : Len(chs[i].values) = chs[i].value_count

\* the collection inside a decoded entity has the length the entity declares
EntityCountsMatch(kind, v) ==
    CASE kind = "MarkerSet" -> Len(v.positions) = v.marker_count
      [] kind \in {"Skeleton", "Asset"} -> Len(v.rigid_bodies) = v.rigid_body_count
      [] kind \in {"ForcePlate", "Device"} ->
            Len(v.channels) = v.channel_count /\ ChannelsMatch(v.channels)
      [] OTHER -> TRUE

\* a section holds count entries, each with matching inner counts
SectionCountsMatch(s) ==
    /\ Len(s.items) = s.count
    /\ \A k \in 1..Len(s.items) : EntityCountsMatch(s.kind, s.items[k])

\* C15: after every successful decode each counted collection has exactly
\* as many elements as the count read from the wire: every section of a
\* FrameData (and the collection inside each MarkerSet, Skeleton, Asset,
\* ForcePlate, Device and channel), and the dataset of a ModelDef.
C15_CollectionsMatchCounts ==
    (pc = "done" /\ out.st = "ok") =>
        /\ out.val.variant \in {"FrameData", "ModelDef"}
        /\ out.val.variant = "FrameData" =>
              \A i \in 1..8 : SectionCountsMatch(LayoutSections(out.val.data)[i])
        /\ out.val.variant = "ModelDef" =>
              Len(out.val.data.dataset) = out.val.data.dataset_count

\* a ModelDef with two entries was decoded
C15_Witness ==
    /\ pc = "done"
    /\ IsModelDef
    /\ out.st = "ok"
    /\ out.val.data.dataset_count = 2
    /\ Len(out.val.data.dataset) = 2
    /\ out.val.data.dataset[1].variant = "MarkerSetDesc"
    /\ Len(out.val.data.dataset[1].data.marker_names) = 2

(***************************************************************************)
(* SpecEntity: an entity decoder on a received buffer that holds exactly   *)
(* one entity: a counted entity with 0..MaxCount elements, or a            *)
(* LabeledMarker with every status of StatusValues, followed by 0..        *)
(* MaxExtra further bytes.                                                 *)
(***************************************************************************)
CountedEntityKinds ==
    {"MarkerSet", "MarkerSetDesc", "Skeleton", "Asset", "ForcePlate",
     "ForcePlateChannel", "Device", "DeviceChannel"}

\* the entity of the kind with n elements, and nothing after it
WireCounted(kind, n) ==
    CASE kind = "MarkerSet" -> <<65, 0>> \o LE32(n) \o Repeat(WireVec3, n)
      [] kind = "MarkerSetDesc" -> <<65, 0>> \o LE32(n) \o Repeat(<<77, 0>>, n)
      [] kind = "Skeleton" -> LE32(3) \o LE32(n) \o Repeat(WireRigidBody, n)
      [] kind = "Asset" -> LE32(4) \o LE32(n) \o Repeat(WireRigidBodyAsset, n)
      [] kind = "ForcePlate" -> LE32(6) \o LE32(n) \o Repeat(LE32(1) \o LE32(7), n)
      [] kind = "ForcePlateChannel" -> LE32(n) \o Repeat(LE32(7), n)
      [] kind = "Device" -> LE32(5) \o LE32(n) \o Repeat(LE32(1) \o LE32(11), n)
      [] kind = "DeviceChannel" -> LE32(n) \o Repeat(LE32(11), n)

MaxStatus == 40

\* every small status, the three known values byte-swapped, and the largest
StatusValues == 0..MaxStatus \cup {256, 512, 1024, 65535}

MaxExtra == 1

\* id, pos, size, status, residual, then extra further bytes
WireLabeledMarker(status, extra) ==
    LE32(9) \o WireVec3 \o FHalf \o LE16(status) \o F1 \o Repeat(<<1>>, extra)

InitEntity ==
    /\ pc = "ready"
    /\ \/ \E k \in CountedEntityKinds, n \in 0..MaxCount :
              /\ item = [kind |-> k, val |-> n]
              /\ src = WireCounted(k, n)
       \/ \E st \in StatusValues, extra \in 0..MaxExtra :
              /\ item = [kind |-> "LabeledMarker", val |-> st]
              /\ src = WireLabeledMarker(st, extra)
    /\ msg = src
    /\ dst = <<>>
    /\ out = None

NextEntity == DecodeWire

SpecEntity == InitEntity /\ [][NextEntity]_vars

\* the collection of a decoded counted entity
DecodedCollection(kind, v) ==
    CASE kind = "MarkerSet" -> v.positions
      [] kind = "MarkerSetDesc" -> v.marker_names
      [] kind \in {"Skeleton", "Asset"} -> v.rigid_bodies
      [] kind \in {"ForcePlate", "Device"} -> v.channels
      [] kind \in {"ForcePlateChannel", "DeviceChannel"} -> v.values

\* C13: for each of the eight counted entity types, a buffer holding exactly
\* the entity with an element count of 0 and nothing after it decodes
\* successfully to a record with an empty collection.
C13_ZeroCountDecodes ==
    (pc = "done" /\ item.kind \in CountedEntityKinds /\ item.val = 0) =>
        (out.st = "ok" /\ DecodedCollection(item.kind, out.val) = <<>>)

\* the variant each status value stands for
StatusOf(s) ==
    CASE s = 1 -> "Occluded"
      [] s = 2 -> "PointCloudSolved"
      [] s = 4 -> "ModelSolved"
      [] OTHER -> "Unrecognized"

\* C17: on any buffer of at least 26 bytes LabeledMarkerCodec::decode
\* succeeds whatever the status is, mapping the little-endian u16 at offset
\* 20: 1 to Occluded, 2 to PointCloudSolved, 4 to ModelSolved, every other
\* value to Unrecognized.
C17_StatusNeverFails ==
    (pc = "done" /\ item.kind = "LabeledMarker" /\ Len(src) >= 26) =>
        /\ out.st = "ok"
        /\ out.pos = 26
        /\ out.val.status = StatusOf(U16LEAt(src, 20))

\* a marker whose status is none of the known values was decoded
C17_Witness ==
    /\ pc = "done"
    /\ item.kind = "LabeledMarker"
    /\ U16LEAt(src, 20) = 1024
    /\ Len(src) = 27
    /\ out.st = "ok"
    /\ out.val.status = "Unrecognized"

(***************************************************************************)
(* SpecMessageId: the u16 -> MessageId conversion on the values 0..MaxTag  *)
(* and on the largest u16                                                  *)
(***************************************************************************)
MaxTag == 120

U16Max == 65535

InitMessageId ==
    /\ pc = "ready"
    /\ item \in {[kind |-> "u16", val |-> v] : v \in 0..MaxTag \cup {U16Max}}
    /\ src = <<>>
    /\ msg = <<>>
    /\ dst = <<>>
    /\ out = None

NextMessageId == MessageIdFrom

SpecMessageId == InitMessageId /\ [][NextMessageId]_vars

\* the identifier the protocol gives each tag
ExpectedMessageId(v) ==
    CASE v = 0 -> "Ping"
      [] v = 1 -> "PingResponse"
      [] v = 2 -> "Request"
      [] v = 3 -> "Response"
      [] v = 4 -> "RequestModelDef"
      [] v = 5 -> "ModelDef"
      [] v = 6 -> "RequestFrameData"
      [] v = 7 -> "FrameData"
      [] v = 8 -> "MessageString"
      [] v = 9 -> "Disconnect"
      [] v = 10 -> "KeepAlive"
      [] v = 11 -> "DisconnectByTimeout"
      [] v = 12 -> "EchoRequest"
      [] v = 13 -> "EchoResponse"
      [] v = 14 -> "Discovery"
      [] OTHER -> "Unrecognized"

\* C14: the u16 -> MessageId mapping is total: 0..14 map to Ping ..
\* Discovery in order, and every other value (100 included) maps to
\* Unrecognized.
C14_MessageIdTotal ==
    (pc = "done" /\ item.kind = "u16") =>
        (out.st = "ok" /\ out.val = ExpectedMessageId(item.val))

\* a value outside the known set other than 100 was converted
C14_Witness ==
    /\ pc = "done"
    /\ item.kind = "u16"
    /\ item.val = 15
    /\ out.val = "Unrecognized"

(***************************************************************************)
(* SpecRigidBody: rub_to_frd on rigid bodies with every position over      *)
(* PosFloats                                                               *)
(***************************************************************************)
PosFloats == {F0, FHalf, F1, FNeg2, FNaN}

RubItems ==
    [id : {1, 258}, pos : [x : PosFloats, y : PosFloats, z : PosFloats],
     rot : {SampleQuat, QuatNaN}, is_tracking_valid : BOOLEAN,
     mean_marker_err : {FHalf}]

InitRigidBody ==
    /\ pc = "ready"
    /\ item \in {[kind |-> "RigidBody", val |-> rb] : rb \in RubItems}
    /\ src = <<>>
    /\ msg = <<>>
    /\ dst = <<>>
    /\ out = None

NextRigidBody == RubToFrd

SpecRigidBody == InitRigidBody /\ [][NextRigidBody]_vars

\* b is -a: the same magnitude bits, the opposite sign bit
IsNegationOf(b, a) ==
    /\ Len(b) = 4
    /\ \A i \in 1..3 : b[i] = a[i]
    /\ (b[4] = a[4] + 128 \/ a[4] = b[4] + 128)

\* C18: RigidBody::rub_to_frd is total and changes only the position: the
\* result has pos = (x, z, -y) of the input position; id, rot,
\* is_tracking_valid and mean_marker_err are unchanged.
C18_RubToFrdMovesOnlyPos ==
    (pc = "done" /\ item.kind = "RigidBody") =>
        /\ out.st = "ok"
        /\ out.val.pos.x = item.val.pos.x
        /\ out.val.pos.y = item.val.pos.z
        /\ IsNegationOf(out.val.pos.z, item.val.pos.y)
        /\ out.val.id = item.val.id
        /\ out.val.rot = item.val.rot
        /\ out.val.is_tracking_valid = item.val.is_tracking_valid
        /\ out.val.mean_marker_err = item.val.mean_marker_err

\* a body at (1, 1/2, -2) was moved to (1, -2, -1/2)
C18_Witness ==
    /\ pc = "done"
    /\ item.kind = "RigidBody"
    /\ item.val.pos = [x |-> F1, y |-> FHalf, z |-> FNeg2]
    /\ out.val.pos = [x |-> F1, y |-> FNeg2, z |-> FNegHalf]

(***************************************************************************)
(* SpecRoundTrip: a FrameParameters value, or a MarkerSet with a NUL-free  *)
(* name and as many positions as it declares, is encoded and the bytes are *)
(* decoded again                                                           *)
(***************************************************************************)
FrameParametersValues == {"IsRecording", "TrackingModelsChanged", "Unrecognized"}

MaxName == 3

\* letters; no NUL
NameBytes == {65, 66}

OtherVec3 == [x |-> FNeg1, y |-> F2, z |-> F0]

\* between 1 and n positions
PositionsUpTo(n) == SeqsUpTo({SampleVec3, OtherVec3}, n) \ {<<>>}

NamedMarkerSets ==
    {[name |-> nm, marker_count |-> Len(ps), positions |-> ps] :
        nm \in SeqsUpTo(NameBytes, MaxName), ps \in PositionsUpTo(MaxCount)}

InitRoundTrip ==
    /\ pc = "ready"
    /\ \/ \E fp \in FrameParametersValues : item = [kind |-> "FrameParameters", val |-> fp]
       \/ \E ms \in NamedMarkerSets : item = [kind |-> "MarkerSet", val |-> ms]
    /\ src = <<>>
    /\ msg = <<>>
    /\ dst = <<>>
    /\ out = None

NextRoundTrip == Encode \/ Decode

SpecRoundTrip == InitRoundTrip /\ [][NextRoundTrip]_vars

\* C19: the FrameParameters tag is a little-endian u16 on both sides:
\* decoding the 2 bytes FrameParametersCodec::encode produced returns the
\* same variant, for each of IsRecording, TrackingModelsChanged and
\* Unrecognized.
C19_FrameParametersRoundTrip ==
    (pc = "done" /\ item.kind = "FrameParameters") =>
        (Len(dst) = 2 /\ out.st = "ok" /\ out.val = item.val)

\* C20: a decoded string is the bytes before the first 0x00 (the terminator
\* is consumed and is no part of the text): for every MarkerSet with a
\* NUL-free name, at least one position and marker_count equal to its
\* position count, decoding the encoded bytes returns the same name,
\* marker_count and positions.
C20_MarkerSetRoundTrip ==
    (pc = "done" /\ item.kind = "MarkerSet") =>
        /\ out.st = "ok"
        /\ out.val.name = item.val.name
        /\ out.val.marker_count = item.val.marker_count
        /\ out.val.positions = item.val.positions


(***************************************************************************)
(* SpecBytes: pairs of FrameData buffers that differ only in the values of *)
(* section byte-length fields, each decoded by Message::from_bytes.        *)
(***************************************************************************)
\* count, a chosen byte length, entries
WireSectionBytes(kind, n, b) == LE32(n) \o LE32(b) \o Repeat(WireEntity(kind), n)

\* the byte lengths WireSection writes for the sections of shape c
DeclaredBytes(c) == [i \in 1..Len(SectionOrder) |-> c[i] * Len(WireEntity(SectionOrder[i]))]

\* the frame of shape c whose byte-length fields hold bs
WireFrameBytes(c, bs, fn, tc) ==
    LE16(7) \o LE16(Len(WireFrame(c, fn, tc))) \o LE32(fn)
        \o Concat([i \in 1..Len(SectionOrder) |->
                      WireSectionBytes(SectionOrder[i], c[i], bs[i])])
        \o LE32(tc) \o LE32(tc + 1)

\* byte lengths a sender may write: none, too large, the largest positive i32
ByteLens == {0, 1000, 2147483647}

\* the sections whose byte length is replaced: one of them, or all
AlteredSections == {{k} : k \in 1..Len(SectionOrder)} \cup {1..Len(SectionOrder)}

\* how many bytes may be missing at the end of both buffers
MaxCut == 2

\* msg is a frame (possibly cut short at its end); src is the same bytes
\* with the byte-length fields of the sections in S replaced by v
InitBytes ==
    /\ pc = "ready"
    /\ \E c \in Shapes, fn \in FrameNumbers, tc \in Timecodes, S \in AlteredSections,
          v \in ByteLens, cut \in 0..MaxCut :
          /\ msg = SubSeq(WireFrame(c, fn, tc), 1, Len(WireFrame(c, fn, tc)) - cut)
          /\ src = SubSeq(WireFrameBytes(c, [i \in 1..Len(SectionOrder) |->
                                                IF i \in S THEN v ELSE DeclaredBytes(c)[i]],
                                         fn, tc),
                          1, Len(WireFrame(c, fn, tc)) - cut)
    /\ item = <<>>
    /\ dst = <<>>
    /\ out = None

NextBytes == FromBytesPair

SpecBytes == InitBytes /\ [][NextBytes]_vars

\* a decoded FrameData without what its eight *_bytes fields hold
EraseBytes(f) ==
    [f EXCEPT !.markerset_bytes = 0, !.unlabeled_marker_bytes = 0,
              !.rigid_body_bytes = 0, !.skeleton_bytes = 0, !.asset_bytes = 0,
              !.labeled_marker_bytes = 0, !.force_plate_bytes = 0,
              !.device_bytes = 0]

\* the two buffers are equal outside the byte-length fields
DifferOnlyInBytesFields ==
    /\ Len(src) = Len(msg)
    /\ Len(src) >= 2 /\ U16LEAt(src, 0) = FrameTag /\ U16LEAt(msg, 0) = FrameTag

\* C16: two FrameData buffers that differ only in the values of section
\* byte-length fields decode with the same outcome, consume the same number
\* of bytes, and yield records that differ only in their *_bytes fields.
C16_BytesFieldsAdvisory ==
    (pc = "done" /\ DifferOnlyInBytesFields) =>
        /\ out[1].st = out[2].st
        /\ out[1].pos = out[2].pos
        /\ out[1].st # "ok" => out[1] = out[2]
        /\ out[1].st = "ok" =>
              /\ out[1].val.variant = "FrameData"
              /\ out[2].val.variant = "FrameData"
              /\ EraseBytes(out[1].val.data) = EraseBytes(out[2].val.data)

\* both frames decoded; the one states 1000 bytes for its one skeleton, the
\* other the 46 bytes the skeleton takes
C16_Witness ==
    /\ pc = "done"
    /\ DifferOnlyInBytesFields
    /\ out[1].st = "ok"
    /\ out[2].st = "ok"
    /\ out[1].val.data.skeleton_count = 1
    /\ out[1].val.data.skeleton_bytes = 1000
    /\ out[2].val.data.skeleton_bytes = Len(WireEntity("Skeleton"))
    /\ out[1].val.data.skeletons = out[2].val.data.skeletons


(***************************************************************************)
(* SpecChannels: one byte string decoded as a ForcePlate and as a Device   *)
(***************************************************************************)
MaxChannels == 2

MaxValues == 2

\* a channel with n samples: u32 value_count, then the samples 7, 8, ..
WireChannel(n) == LE32(n) \o Concat([k \in 1..n |-> LE32(6 + k)])

\* u32 id, a declared channel count, then one channel per entry of ns
WireChannels(cc, ns) == LE32(6) \o LE32(cc) \o Concat([k \in 1..Len(ns) |-> WireChannel(ns[k])])

\* src is such a byte string, whole or cut short anywhere
InitChannels ==
    /\ pc = "ready"
    /\ \E cc \in 0..MaxChannels, ns \in SeqsUpTo(0..MaxValues, MaxChannels) :
          \E cut \in 0..Len(WireChannels(cc, ns)) :
              src = SubSeq(WireChannels(cc, ns), 1, cut)
    /\ msg = <<>>
    /\ item = <<>>
    /\ dst = <<>>
    /\ out = None

NextChannels == DecodeBoth

SpecChannels == InitChannels /\ [][NextChannels]_vars

\* C22: for every byte string DeviceCodec::decode succeeds exactly when
\* ForcePlateCodec::decode succeeds, and on success both return the same id,
\* channel_count and per-channel value_count and values.
C22_DeviceLikeForcePlate ==
    pc = "done" =>
        /\ (out[1].st = "ok") <=> (out[2].st = "ok")
        /\ out[1].st = "ok" =>
              /\ out[1].val.id = out[2].val.id
              /\ out[1].val.channel_count = out[2].val.channel_count
              /\ out[1].val.channels = out[2].val.channels


(***************************************************************************)
(* SpecLabeledMarker: a LabeledMarker is encoded and the bytes are decoded *)
(* again                                                                   *)
(***************************************************************************)
LabeledMarkerStatuses == {"Occluded", "PointCloudSolved", "ModelSolved", "Unrecognized"}

LabeledMarkerItems ==
    [id : {9, 258}, pos : {SampleVec3, OtherVec3}, size : {F0, FHalf},
     status : LabeledMarkerStatuses, residual : {F0, F2, FNeg1}]

InitLabeledMarker ==
    /\ pc = "ready"
    /\ \E m \in LabeledMarkerItems : item = [kind |-> "LabeledMarker", val |-> m]
    /\ src = <<>>
    /\ msg = <<>>
    /\ dst = <<>>
    /\ out = None

NextLabeledMarker == Encode \/ Decode

SpecLabeledMarker == InitLabeledMarker /\ [][NextLabeledMarker]_vars

\* the size of a LabeledMarker on the wire: 4 + 12 + 4 + 2 + 4
LabeledMarkerSize == 26

\* C23: LabeledMarkerCodec::encode emits all five fields of the layout (id,
\* pos, size, status, residual; 26 bytes), so decoding the encoded bytes
\* succeeds and returns the same id, pos, size, status and residual.
C23_LabeledMarkerRoundTrip ==
    (pc = "done" /\ item.kind = "LabeledMarker") =>
        /\ Len(dst) = LabeledMarkerSize
        /\ out.st = "ok"
        /\ out.val = item.val


(***************************************************************************)
(* SpecFixed: the decoders of the fixed-size entities on buffers of every  *)
(* length around the entity's size                                         *)
(***************************************************************************)
FixedKinds == {"RigidBody", "RigidBodyAsset", "LabeledMarker", "Stamps", "FrameParameters"}

\* one complete entity of each kind as it lies on the wire
WireFixed(kind) ==
    CASE kind = "RigidBody" -> WireRigidBody
      [] kind = "RigidBodyAsset" -> WireRigidBodyAsset
      [] kind = "LabeledMarker" -> WireEntity("LabeledMarker")
      [] kind = "Stamps" -> StampsCodec_encode(SampleStamps)
      [] kind = "FrameParameters" -> LE16(1)

\* how many bytes may follow the entity in the buffer
MaxPad == 3

PadBytes == {0, 9}

\* src is an entity followed by padding, cut at any length
InitFixed ==
    /\ pc = "ready"
    /\ \E kind \in FixedKinds, b \in PadBytes :
          /\ item = [kind |-> kind]
          /\ \E n \in 0..(Len(WireFixed(kind)) + MaxPad) :
                src = SubSeq(WireFixed(kind) \o [k \in 1..MaxPad |-> b], 1, n)
    /\ msg = <<>>
    /\ dst = <<>>
    /\ out = None

NextFixed == DecodeWire

SpecFixed == InitFixed /\ [][NextFixed]_vars

\* the full wire size of each fixed-size entity
FixedSize(kind) ==
    CASE kind \in {"RigidBody", "RigidBodyAsset"} -> 38
      [] kind = "LabeledMarker" -> 26
      [] kind = "Stamps" -> 42
      [] kind = "FrameParameters" -> 2

\* C24: each fixed-size entity decoder rejects with an error value, before
\* reading anything, exactly the buffers shorter than the entity's full wire
\* size (RigidBody 38, RigidBodyAsset 38, LabeledMarker 26, Stamps 42,
\* FrameParameters 2), and on success consumes exactly that size; no buffer
\* length makes it read past the end of the buffer.
C24_FixedSizeGuards ==
    (pc = "done" /\ item.kind \in FixedKinds) =>
        /\ out.st # "panic"
        /\ Len(src) < FixedSize(item.kind) => (out.st = "err" /\ out.pos = 0)
        /\ Len(src) >= FixedSize(item.kind) =>
              (out.st = "ok" /\ out.pos = FixedSize(item.kind))


(***************************************************************************)
(* SpecTail: frames followed by a complete Stamps block and up to MaxAfter *)
(* further bytes                                                           *)
(***************************************************************************)
\* frames with at most one entry
TailShapes == {c \in Shapes : Sum(c) <= 1}

\* the four timestamps and the two precision fields of a Stamps block
WireStampsFields == SubSeq(StampsCodec_encode(SampleStamps), 1, 40)

\* two-byte tags: the values 1 and 2 in either byte order, and 0
WireTags == {<<0, 1>>, <<0, 2>>, <<1, 0>>, <<2, 0>>, <<0, 0>>}

MaxAfter == 3

AfterBytes == {0, 1, 2}

\* msg is the frame up to and including timecode_sub; src is msg, the six
\* Stamps fields, a tag, and what follows
InitTail ==
    /\ pc = "ready"
    /\ msg \in {WireFrame(c, fn, tc) : c \in TailShapes, fn \in FrameNumbers, tc \in Timecodes}
    /\ \E tag \in WireTags, rest \in SeqsUpTo(AfterBytes, MaxAfter) :
          src = msg \o WireStampsFields \o tag \o rest
    /\ item = <<>>
    /\ dst = <<>>
    /\ out = None

NextTail == FromBytes

SpecTail == InitTail /\ [][NextTail]_vars

\* the FrameParameters value of the two bytes at pos
TagAt(buf, pos) == FrameParametersCodec_decode(buf, pos).val

\* C25: the tag that follows the six Stamps fields is consumed by the Stamps
\* decode and stored in stamps.param; frame_parameters is decoded from the
\* next 2 bytes after the 42-byte Stamps block.  A frame that ends exactly
\* after the Stamps block has frame_parameters Unrecognized whatever the tag;
\* frame_parameters takes a wire value only when at least 2 more bytes follow.
C25_TagBelongsToStamps ==
    (pc = "done" /\ IsFrame /\ Len(src) >= Len(msg) + 42) =>
        /\ out.st = "ok"
        /\ out.val.data.stamps.param = TagAt(src, Len(msg) + 40)
        /\ Len(src) = Len(msg) + 42 => out.val.data.frame_parameters = "Unrecognized"
        /\ Len(src) >= Len(msg) + 44 =>
              out.val.data.frame_parameters = TagAt(src, Len(msg) + 42)
        /\ out.val.data.frame_parameters # "Unrecognized" => Len(src) >= Len(msg) + 44

\* a frame ending right after a Stamps block whose tag says IsRecording
C25_Witness ==
    /\ pc = "done"
    /\ IsFrame
    /\ Len(src) = Len(msg) + 42
    /\ out.st = "ok"
    /\ out.val.data.stamps.param = "IsRecording"
    /\ out.val.data.stamps.timestamp_precision = 3
    /\ out.val.data.frame_parameters = "Unrecognized"


(***************************************************************************)
(* SpecDesc: MarkerSetDesc and RigidBodyDesc buffers whose marker count is *)
(* negative, followed by 0 to MaxTrail further bytes                       *)
(***************************************************************************)
\* -1, -2 and the smallest i32 but one
NegativeCounts == {-1, -2, -2147483647}

\* inline names: empty, and "A"
DescNames == {<<0>>, <<65, 0>>}

\* what each descriptor holds between its name and its marker count
BeforeMarkerCount(kind) ==
    IF kind = "RigidBodyDesc" THEN LE32(7) \o LE32(259) \o WireVec3 ELSE <<>>

MaxTrail == 13

TrailBytes == {0, 65}

\* item.val is the count on the wire, item.at the offset of the count
InitDesc ==
    /\ pc = "ready"
    /\ \E kind \in {"MarkerSetDesc", "RigidBodyDesc"}, nm \in DescNames,
          n \in NegativeCounts, k \in 0..MaxTrail, b \in TrailBytes :
          /\ item = [kind |-> kind, val |-> n, at |-> Len(nm \o BeforeMarkerCount(kind))]
          /\ src = nm \o BeforeMarkerCount(kind) \o LE32(n) \o [j \in 1..k |-> b]
    /\ msg = <<>>
    /\ dst = <<>>
    /\ out = None

NextDesc == DecodeWire

SpecDesc == InitDesc /\ [][NextDesc]_vars

\* the collections of a decoded descriptor are all empty
NoMarkerEntries(kind, v) ==
    /\ v.marker_names = <<>>
    /\ kind = "RigidBodyDesc" => (v.marker_offsets = <<>> /\ v.marker_active_labels = <<>>)

\* C26: MarkerSetDesc and RigidBodyDesc read their marker count as a signed
\* 32-bit integer: when the wire count is negative the decode does not fail,
\* reads no marker entries, and returns the negative count together with
\* empty collections, so the returned count differs from the collection
\* length.
C26_NegativeCountDecodes ==
    (pc = "done" /\ item.kind \in {"MarkerSetDesc", "RigidBodyDesc"} /\ item.val < 0) =>
        /\ out.st = "ok"
        /\ out.pos = item.at + 4
        /\ out.val.marker_count = item.val
        /\ NoMarkerEntries(item.kind, out.val)
        /\ out.val.marker_count # Len(out.val.marker_names)

====
